---- MODULE Spec2Model ----
(***************************************************************************)
(* Model of terraform-provider-discord.                                    *)
(*                                                                         *)
(* Part 1: the color data source (internal/provider/data_source_color.go): *)
(* hexToDecimal, rgbToDecimal and colorDataSource.Read.                    *)
(*                                                                         *)
(* A Go string is modelled as a sequence of one-character strings, so that *)
(* trimming, upper-casing, regular-expression matching and number parsing  *)
(* are computed character by character, as the code and the Go library do. *)
(*                                                                         *)
(* Part 2: the channel type codec (internal/provider/resource_channel.go)  *)
(* and the ImportState handlers that decode a composite import ID.         *)
(*                                                                         *)
(* Part 3: Configure and the Create/Read/Update/Delete handlers of the     *)
(* resources, with discord_role_member in full.                            *)
(*                                                                         *)
(* Part 4: the handlers of discord_webhook, discord_channel (Create),      *)
(* discord_invite, discord_role and discord_channel_permission, each under *)
(* a specification of its own; in the one-shot specifications of Update    *)
(* arg is req.State and cfg is req.Plan. ConcurrentSpec runs two Create    *)
(* calls of discord_channel_permission at once: there pc, cfg, ret, diags  *)
(* and state hold one value per call.                                      *)
(***************************************************************************)
EXTENDS Integers, Sequences, FiniteSets, TLC

VARIABLES
    op,      \* the operation under way: "hexToDecimal", "rgbToDecimal", "Read";
             \* in parts 2 and 3 a codec function or a method of res
    pc,      \* "call" before the operation has run, "done" after it returned
    arg,     \* the string passed to hexToDecimal / rgbToDecimal; in parts 2
             \* and 3 the codec argument, req.ID or req.ProviderData
    origin,  \* how arg was drawn (history variable, never read by an operation)
    cfg,     \* the configuration handed to Read: [hex, rgb], each a types.String
    ret,     \* (int64, error) of the last conversion: [val |-> .., err |-> ..]
    diags,   \* resp.Diagnostics: the sequence of error summaries
    state,   \* resp.State: NoState, or the model written by State.Set
    res,     \* the resource whose handler runs (parts 2 and 3)
    client,  \* that resource's client field: ClientNil or ClientSession
    calls,   \* the Discord API calls the last handler made, in order
    discord  \* the permission overwrites the channel holds at Discord (part 4,
             \* concurrent handlers); << >> where no handler shares a channel

color_vars == <<op, pc, arg, origin, cfg, ret, diags, state>>

resource_vars == <<res, client, calls, discord>>

vars == <<op, pc, arg, origin, cfg, ret, diags, state, res, client, calls, discord>>

----------------------------------------------------------------------------
(* Bounds of the model *)

\* longest run of hex-alphabet characters drawn as a hexToDecimal argument
MaxHexLen == 7

\* longest run of whitespace drawn in each whitespace position of rgb(R, G, B)
MaxWs == 1

----------------------------------------------------------------------------
(* Characters *)

Digits == <<"0", "1", "2", "3", "4", "5", "6", "7", "8", "9">>

LowerLetters ==
    <<"a", "b", "c", "d", "e", "f", "g", "h", "i", "j", "k", "l", "m",
      "n", "o", "p", "q", "r", "s", "t", "u", "v", "w", "x", "y", "z">>

UpperLetters ==
    <<"A", "B", "C", "D", "E", "F", "G", "H", "I", "J", "K", "L", "M",
      "N", "O", "P", "Q", "R", "S", "T", "U", "V", "W", "X", "Y", "Z">>

Range(seq) == {seq[i] : i \in 1..Len(seq)}

IndexOf(seq, c) == CHOOSE i \in 1..Len(seq) : seq[i] = c

\* the errors of the two converters, named by the head of their message
ErrNil == "nil"
ErrHexFormat == "invalid hex color format"
ErrHexLength == "invalid hex color length"
ErrHexParse == "error parsing hex to decimal"
ErrRgbFormat == "invalid RGB format"
ErrRedParse == "error parsing red value"
ErrRedRange == "red value must be between 0 and 255"
ErrGreenParse == "error parsing green value"
ErrGreenRange == "green value must be between 0 and 255"
ErrBlueParse == "error parsing blue value"
ErrBlueRange == "blue value must be between 0 and 255"

Result(v, e) == [val |-> v, err |-> e]

----------------------------------------------------------------------------
(* Go library calls, computed as the library computes them *)

\* strings.TrimPrefix(s, "#"): s without one leading '#', if it has one
TrimPrefix(s) ==
    IF Len(s) >= 1 /\ s[1] = "#" THEN SubSeq(s, 2, Len(s)) ELSE s

ToUpperChar(c) ==
    IF c \in Range(LowerLetters) THEN UpperLetters[IndexOf(LowerLetters, c)] ELSE c

\* fault: the argument is not upper-cased
ToUpper_Identity(s) == s

\* strings.ToUpper(s)
ToUpper(s) == [i \in 1..Len(s) |-> ToUpperChar(s[i])]

\* fault: the pattern ^[0-9A-F]*$, which the empty string matches
MatchHexString_Star(s) ==
    \A i \in 1..Len(s) : s[i] \in Range(Digits) \cup {"A", "B", "C", "D", "E", "F"}

\* regexp.MatchString("^[0-9A-F]+$", s)
HexCharClass == Range(Digits) \cup {"A", "B", "C", "D", "E", "F"}

MatchHexString(s) == Len(s) >= 1 /\ \A i \in 1..Len(s) : s[i] \in HexCharClass

\* fault: letters valued from 11 on
DigitVal_OffByOne(c) ==
    IF c \in Range(Digits) THEN IndexOf(Digits, c) - 1
    ELSE IF c \in Range(LowerLetters) THEN IndexOf(LowerLetters, c) + 10
    ELSE IF c \in Range(UpperLetters) THEN IndexOf(UpperLetters, c) + 10
    ELSE -1

\* the value of one digit as strconv.ParseInt reads it: 0-9, a-z, A-Z; -1 otherwise
DigitVal(c) ==
    IF c \in Range(Digits) THEN IndexOf(Digits, c) - 1
    ELSE IF c \in Range(LowerLetters) THEN IndexOf(LowerLetters, c) + 9
    ELSE IF c \in Range(UpperLetters) THEN IndexOf(UpperLetters, c) + 9
    ELSE -1

RECURSIVE DropZeros(_)
DropZeros(s) == IF Len(s) >= 1 /\ s[1] = "0" THEN DropZeros(Tail(s)) ELSE s

MaxInt64Digits ==
    <<"9", "2", "2", "3", "3", "7", "2", "0", "3", "6",
      "8", "5", "4", "7", "7", "5", "8", "0", "7">>

RECURSIVE DigitsGreater(_, _)
\* a > b for two digit strings of the same length
DigitsGreater(a, b) ==
    IF Len(a) = 0 THEN FALSE
    ELSE IF DigitVal(a[1]) # DigitVal(b[1]) THEN DigitVal(a[1]) > DigitVal(b[1])
    ELSE DigitsGreater(Tail(a), Tail(b))

\* the digits denote a number above 2^63 - 1 (strconv.ErrRange)
OverflowsInt64(ds, base) ==
    LET sig == DropZeros(ds) IN
    IF base = 10
    THEN Len(sig) > Len(MaxInt64Digits)
         \/ (Len(sig) = Len(MaxInt64Digits) /\ DigitsGreater(sig, MaxInt64Digits))
    ELSE Len(sig) > 16 \/ (Len(sig) = 16 /\ DigitVal(sig[1]) >= 8)

RECURSIVE DigitsValue(_, _, _)
DigitsValue(ds, base, acc) ==
    IF Len(ds) = 0 THEN acc
    ELSE DigitsValue(Tail(ds), base, acc * base + DigitVal(ds[1]))

\* strconv.ParseInt(s, base, 64), base 10 or 16: an optional sign, then one or
\* more digits below the base; a syntax error or a range error otherwise.
ParseInt(s, base) ==
    LET signed == Len(s) >= 1 /\ s[1] \in {"+", "-"}
        ds == IF signed THEN Tail(s) ELSE s
        neg == signed /\ s[1] = "-"
    IN  IF Len(ds) = 0 \/ \E i \in 1..Len(ds) : DigitVal(ds[i]) < 0 \/ DigitVal(ds[i]) >= base
        THEN Result(0, "invalid syntax")
        ELSE IF OverflowsInt64(ds, base)
        THEN Result(0, "value out of range")
        ELSE Result(IF neg THEN 0 - DigitsValue(ds, base, 0) ELSE DigitsValue(ds, base, 0),
                    ErrNil)

----------------------------------------------------------------------------
(* hexToDecimal *)

\* fault: the three characters repeated as a group, RGB -> RGBRGB
ExpandShort_Repeat(hex) == IF Len(hex) = 3 THEN hex \o hex ELSE hex

\* the short format, RGB -> RRGGBB
ExpandShort(hex) ==
    IF Len(hex) = 3
    THEN <<hex[1], hex[1], hex[2], hex[2], hex[3], hex[3]>>
    ELSE hex

\* the length test that rejects the string
WrongHexLength(hex) == Len(hex) # 6

hexToDecimal(hex0) ==
    LET hex == ToUpper(TrimPrefix(hex0)) IN
    IF ~MatchHexString(hex) THEN Result(0, ErrHexFormat)
    ELSE LET full == ExpandShort(hex) IN
         IF WrongHexLength(full) THEN Result(0, ErrHexLength)
         ELSE LET parsed == ParseInt(full, 16) IN
              IF parsed.err # ErrNil THEN Result(0, ErrHexParse)
              ELSE Result(parsed.val, ErrNil)

----------------------------------------------------------------------------
(* rgbToDecimal *)

\* the class \s of Go's regexp: [\t\n\f\r ]
WhiteSpace == {" ", "\t", "\n", "\f", "\r"}

\* fault: a pattern without its \s*
SkipWs_None(s, i) == i

RECURSIVE SkipWs(_, _)
\* \s* from position i: the position after the longest run of whitespace
SkipWs(s, i) ==
    IF i <= Len(s) /\ s[i] \in WhiteSpace THEN SkipWs(s, i + 1) ELSE i

RECURSIVE SkipDigits_Signed(_, _)
\* fault: the capture groups -?\d+ , which take a sign
SkipDigits_Signed(s, i) ==
    IF i <= Len(s) /\ s[i] \in Range(Digits) \cup {"-"} THEN SkipDigits_Signed(s, i + 1) ELSE i

RECURSIVE SkipDigits(_, _)
\* \d* from position i: the position after the longest run of ASCII digits
SkipDigits(s, i) ==
    IF i <= Len(s) /\ s[i] \in Range(Digits) THEN SkipDigits(s, i + 1) ELSE i

At(s, i, c) == i <= Len(s) /\ s[i] = c

\* rgbRegex.FindStringSubmatch(s) for ^rgb\s*\(\s*(\d+)\s*,\s*(\d+)\s*,\s*(\d+)\s*\)$ :
\* <<>> (nil) when s does not match, else <<s, R, G, B>>. Every token of the
\* pattern is disjoint from the class repeated before it, so the leftmost match
\* is the greedy one and no position is tried twice.
FindStringSubmatch(s) ==
    LET p1 == SkipWs(s, 4)
        r1 == SkipWs(s, p1 + 1)
        r2 == SkipDigits(s, r1)
        c1 == SkipWs(s, r2)
        g1 == SkipWs(s, c1 + 1)
        g2 == SkipDigits(s, g1)
        c2 == SkipWs(s, g2)
        b1 == SkipWs(s, c2 + 1)
        b2 == SkipDigits(s, b1)
        p2 == SkipWs(s, b2)
    IN  IF /\ At(s, 1, "r") /\ At(s, 2, "g") /\ At(s, 3, "b")
           /\ At(s, p1, "(")
           /\ r2 > r1
           /\ At(s, c1, ",")
           /\ g2 > g1
           /\ At(s, c2, ",")
           /\ b2 > b1
           /\ At(s, p2, ")")
           /\ p2 = Len(s)
        THEN <<s, SubSeq(s, r1, r2 - 1), SubSeq(s, g1, g2 - 1), SubSeq(s, b1, b2 - 1)>>
        ELSE <<>>

\* fault: no upper limit on a component
ComponentOutOfRange_NoUpper(v) == v < 0

\* fault: the upper limit off by one
ComponentOutOfRange_OffByOne(v) == v < 0 \/ v >= 255

\* the range test on one component
ComponentOutOfRange(v) == v < 0 \/ v > 255

\* fault: red and blue exchanged
CombineRGB_Swapped(r, g, b) == b * 65536 + g * 256 + r

\* R*65536 + G*256 + B
CombineRGB(r, g, b) == r * 65536 + g * 256 + b

rgbToDecimal(rgb) ==
    LET matches == FindStringSubmatch(rgb) IN
    IF matches = <<>> \/ Len(matches) # 4 THEN Result(0, ErrRgbFormat)
    ELSE LET r == ParseInt(matches[2], 10)
             g == ParseInt(matches[3], 10)
             b == ParseInt(matches[4], 10)
         IN  IF r.err # ErrNil THEN Result(0, ErrRedParse)
             ELSE IF ComponentOutOfRange(r.val) THEN Result(0, ErrRedRange)
             ELSE IF g.err # ErrNil THEN Result(0, ErrGreenParse)
             ELSE IF ComponentOutOfRange(g.val) THEN Result(0, ErrGreenRange)
             ELSE IF b.err # ErrNil THEN Result(0, ErrBlueParse)
             ELSE IF ComponentOutOfRange(b.val) THEN Result(0, ErrBlueRange)
             ELSE Result(CombineRGB(r.val, g.val, b.val), ErrNil)

----------------------------------------------------------------------------
(* colorDataSource.Read *)

\* types.String: null, unknown, or a known string
StringNull == [kind |-> "null", v |-> <<>>]
StringUnknown == [kind |-> "unknown", v |-> <<>>]
StringValue(s) == [kind |-> "value", v |-> s]

IsNull(x) == x.kind = "null"
IsUnknown(x) == x.kind = "unknown"
\* ValueString() is "" for a null or unknown value
ValueString(x) == IF x.kind = "value" THEN x.v ELSE <<>>

\* fault: the empty string counts as a supplied value
HasValue_NoEmptyCheck(x) == ~IsNull(x) /\ ~IsUnknown(x)

\* hasHex / hasRGB: the attribute is known and not the empty string
HasValue(x) == ~IsNull(x) /\ ~IsUnknown(x) /\ ValueString(x) # << >>

NoState == [set |-> FALSE, dec |-> 0]

MaxColor == 16777215

\* the defensive range check on the converted value
OutOfColorRange(v) == v < 0 \/ v > MaxColor

----------------------------------------------------------------------------
(* The inputs the operations are applied to *)

\* one character of each class hexToDecimal tells apart: a digit, a lower-case
\* and an upper-case hex letter, and a letter that is no hex digit
HexAlphabet == {"0", "a", "F", "g"}

HexRuns == UNION {[1..n -> HexAlphabet] : n \in 0..MaxHexLen}

\* the strings of TestHexToDecimal, and '#' in places TrimPrefix leaves alone
HexVectors ==
    { <<"#", "4", "2", "8", "7", "f", "5">>,
      <<"4", "2", "8", "7", "f", "5">>,
      <<"#", "f", "5", "a">>,
      <<"f", "5", "a">>,
      <<"f", "f", "5", "5", "a", "a">>,
      <<"#", "0", "0", "0", "0", "0", "0">>,
      <<"#", "F", "F", "F", "F", "F", "F">>,
      <<"#", "G", "G", "G", "G", "G", "G">>,
      <<"#", "1", "2", "3", "4", "5">>,
      <<"#", "#", "0", "0", "0", "0", "0", "0">>,
      <<"0", "0", "0", "#">>,
      <<" ", "0", "0", "0">> }

HexInputs == HexRuns \cup {<<"#">> \o h : h \in HexRuns} \cup HexVectors

RECURSIVE Itoa(_)
\* the decimal text of a natural number
Itoa(n) == IF n < 10 THEN <<Digits[n + 1]>> ELSE Itoa(n \div 10) \o <<Digits[(n % 10) + 1]>>

Pad(n, c) == [i \in 1..n |-> c]

\* "rgb(R, G, B)" with ws[k] copies of the whitespace character wc in the k-th
\* of the seven places the pattern allows whitespace, and each component
\* written in decimal after lz leading zeros
RgbString(ws, wc, lz, r, g, b) ==
    <<"r", "g", "b">> \o Pad(ws[1], wc) \o <<"(">> \o Pad(ws[2], wc)
        \o Pad(lz, "0") \o Itoa(r) \o Pad(ws[3], wc) \o <<",">> \o Pad(ws[4], wc)
        \o Pad(lz, "0") \o Itoa(g) \o Pad(ws[5], wc) \o <<",">> \o Pad(ws[6], wc)
        \o Pad(lz, "0") \o Itoa(b) \o Pad(ws[7], wc) \o <<")">>

NoWs == <<0, 0, 0, 0, 0, 0, 0>>
\* one space after each comma, as in "rgb(46, 204, 113)"
CommaWs == <<0, 0, 0, 1, 0, 1, 0>>

WsPatterns == [1..7 -> 0..MaxWs]
WsChars == {" ", "\t"}

\* the colors of TestRgbToDecimal, drawn under every whitespace pattern
TableTriples == {<<255, 0, 0>>, <<0, 255, 0>>, <<0, 0, 255>>, <<46, 204, 113>>}

\* component values on both sides of every digit-count and range boundary,
\* drawn without whitespace and with a space after each comma
GridValues == {0, 1, 9, 10, 15, 16, 113, 255, 256, 1000}

RawOrigin == [kind |-> "raw", ws |-> NoWs, wc |-> " ", lz |-> 0, r |-> 0, g |-> 0, b |-> 0]

RgbOrigins ==
    {[kind |-> "rgb", ws |-> w, wc |-> c, lz |-> 0, r |-> t[1], g |-> t[2], b |-> t[3]] :
        w \in WsPatterns, c \in WsChars, t \in TableTriples}
    \cup
    {[kind |-> "rgb", ws |-> w, wc |-> " ", lz |-> z, r |-> x, g |-> y, b |-> v] :
        w \in {NoWs, CommaWs}, z \in {0, 2}, x \in GridValues, y \in GridValues, v \in GridValues}

\* the malformed strings of TestRgbToDecimal, strings off the pattern by one token,
\* and components above 2^63 - 1 (a matched component between 2^31 and 2^63 is
\* not drawn: TLC's integers end at 2^31 - 1)
RgbVectors ==
    { <<"4", "6", ",", " ", "2", "0", "4", ",", " ", "1", "1", "3">>,
      <<"r", "g", "b", "(", "2", "5", "6", ",", "0", ",", "0", ")">>,
      <<"r", "g", "b", "(", "2", "5", "6", ",", " ", "0", ",", " ", "0", ")">>,
      <<"r", "g", "b", "(", "-", "1", ",", "0", ",", "0", ")">>,
      <<"r", "g", "b", "(", "-", "1", ",", " ", "0", ",", " ", "0", ")">>,
      <<"r", "g", "b", "(", "+", "1", ",", "0", ",", "0", ")">>,
      <<"R", "G", "B", "(", "1", ",", "2", ",", "3", ")">>,
      <<" ", "r", "g", "b", "(", "1", ",", "2", ",", "3", ")">>,
      <<"r", "g", "b", "(", "1", ",", "2", ",", "3", ")", " ">>,
      <<"r", "g", "b", "(", "1", ",", "2", ",", "3">>,
      <<"r", "g", "b", "(", "1", ",", "2", ")">>,
      <<"r", "g", "b", "(", "1", " ", "2", ",", "3", ",", "4", ")">>,
      <<"r", "g", "b", "(", ",", ",", ")">>,
      <<"r", "g", "b">>,
      << >>,
      <<"r", "g", "b", "(", "0", ",", "0", ",">> \o Pad(20, "9") \o <<")">>,
      <<"r", "g", "b", "(", "0", ",">> \o SubSeq(MaxInt64Digits, 1, 18) \o <<"8", ",", "0", ")">> }

\* the values Read may find in `hex` and in `rgb`
ConfigHex ==
    { StringNull, StringUnknown, StringValue(<< >>),
      StringValue(<<"#", "f", "5", "a">>),
      StringValue(<<"4", "2", "8", "7", "f", "5">>),
      StringValue(<<"#", "F", "F", "F", "F", "F", "F">>),
      StringValue(<<"#">>),
      StringValue(<<"#", "G", "G", "G", "G", "G", "G">>),
      StringValue(<<"#", "1", "2", "3", "4", "5">>) }

ConfigRgb ==
    { StringNull, StringUnknown, StringValue(<< >>),
      StringValue(RgbString(CommaWs, " ", 0, 46, 204, 113)),
      StringValue(RgbString(NoWs, " ", 0, 255, 255, 255)),
      StringValue(RgbString(NoWs, " ", 0, 256, 0, 0)),
      StringValue(<<"4", "6", ",", " ", "2", "0", "4", ",", " ", "1", "1", "3">>),
      StringValue(<<"r", "g", "b", "(", "-", "1", ",", "0", ",", "0", ")">>) }

NoConfig == [hex |-> StringNull, rgb |-> StringNull]

----------------------------------------------------------------------------
(* The state machine: an operation and its input are drawn, then it runs *)

ColorInit ==
    /\ discord = << >>
    /\ pc = "call"
    /\ res = "discord_color"
    /\ client = "nil"
    /\ calls = << >>
    /\ ret = Result(0, ErrNil)
    /\ diags = << >>
    /\ state = NoState
    /\ \/ /\ op = "hexToDecimal"
          /\ arg \in HexInputs
          /\ origin = RawOrigin
          /\ cfg = NoConfig
       \/ /\ op = "rgbToDecimal"
          /\ \/ /\ origin \in RgbOrigins
                /\ arg = RgbString(origin.ws, origin.wc, origin.lz, origin.r, origin.g, origin.b)
             \/ /\ origin = RawOrigin
                /\ arg \in RgbVectors
          /\ cfg = NoConfig
       \/ /\ op = "Read"
          /\ arg = << >>
          /\ origin = RawOrigin
          /\ cfg \in [hex : ConfigHex, rgb : ConfigRgb]

CallHexToDecimal ==
    /\ pc = "call"
    /\ op = "hexToDecimal"
    /\ ret' = hexToDecimal(arg)
    /\ pc' = "done"
    /\ UNCHANGED <<op, arg, origin, cfg, diags, state>>
    /\ UNCHANGED resource_vars

CallRgbToDecimal ==
    /\ pc = "call"
    /\ op = "rgbToDecimal"
    /\ ret' = rgbToDecimal(arg)
    /\ pc' = "done"
    /\ UNCHANGED <<op, arg, origin, cfg, diags, state>>
    /\ UNCHANGED resource_vars

\* colorDataSource.Read. req.Config.Get fills a model whose fields have the
\* schema's types and State.Set writes that same model back, so neither adds a
\* diagnostic; ret holds the locals decimalValue and err.
Read ==
    /\ pc = "call"
    /\ op = "Read"
    /\ LET hasHex == HasValue(cfg.hex)
           hasRGB == HasValue(cfg.rgb)
           conv == IF hasHex THEN hexToDecimal(ValueString(cfg.hex))
                   ELSE rgbToDecimal(ValueString(cfg.rgb))
       IN  IF ~hasHex /\ ~hasRGB
           THEN /\ diags' = Append(diags, "Missing Color Input")
                /\ UNCHANGED <<ret, state>>
           ELSE IF hasHex /\ hasRGB
           THEN /\ diags' = Append(diags, "Conflicting Color Input")
                /\ UNCHANGED <<ret, state>>
           ELSE /\ ret' = conv
                /\ IF conv.err # ErrNil
                   THEN /\ diags' = Append(diags, IF hasHex THEN "Invalid Hex Color"
                                                  ELSE "Invalid RGB Color")
                        /\ UNCHANGED state
                   ELSE IF OutOfColorRange(conv.val)
                   THEN /\ diags' = Append(diags, "Invalid Color Range")
                        /\ UNCHANGED state
                   ELSE /\ state' = [set |-> TRUE, dec |-> conv.val]
                        /\ UNCHANGED diags
    /\ pc' = "done"
    /\ UNCHANGED <<op, arg, origin, cfg>>
    /\ UNCHANGED resource_vars

ColorNext == CallHexToDecimal \/ CallRgbToDecimal \/ Read

ColorSpec == ColorInit /\ [][ColorNext]_color_vars

----------------------------------------------------------------------------
(* Vocabulary of the properties, defined apart from the operations above *)

HexDone == pc = "done" /\ op = "hexToDecimal"
RgbDone == pc = "done" /\ op = "rgbToDecimal"
ReadDone == pc = "done" /\ op = "Read"

LowerHexLetters == {"a", "b", "c", "d", "e", "f"}
UpperHexDigits ==
    {"0", "1", "2", "3", "4", "5", "6", "7", "8", "9", "A", "B", "C", "D", "E", "F"}

UpperHexLetter(c) ==
    CASE c = "a" -> "A" [] c = "b" -> "B" [] c = "c" -> "C"
      [] c = "d" -> "D" [] c = "e" -> "E" [] c = "f" -> "F" [] OTHER -> c

\* h without one leading '#'
Stripped(h) == IF h # << >> /\ Head(h) = "#" THEN Tail(h) ELSE h

\* h with the '#' stripped and the hex letters upper-cased
Normalized(h) == [i \in 1..Len(Stripped(h)) |-> UpperHexLetter(Stripped(h)[i])]

AllHexDigits(n) == \A i \in 1..Len(n) : n[i] \in UpperHexDigits

\* h is n hex digits in any letter case, with or without one leading '#'
IsHexOfLen(h, n) == Len(Stripped(h)) = n /\ AllHexDigits(Normalized(h))

----------------------------------------------------------------------------
(* C1 - C4: hexToDecimal *)

\* C1: for every string of exactly 6 hex digits, in any letter case, with or
\* without one leading '#', hexToDecimal succeeds, returns what it returns for
\* the string with the '#' stripped and the letters upper-cased, and the result
\* lies in 0..16777215; "#000000" gives 0 and "#FFFFFF" gives 16777215.
C1_HexNormalization ==
    (HexDone /\ IsHexOfLen(arg, 6)) =>
        LET n == hexToDecimal(Normalized(arg)) IN
        /\ ret.err = ErrNil
        /\ n.err = ErrNil
        /\ ret.val = n.val
        /\ ret.val \in 0..16777215
        /\ (arg = <<"#", "0", "0", "0", "0", "0", "0">> => ret.val = 0)
        /\ (arg = <<"#", "F", "F", "F", "F", "F", "F">> => ret.val = 16777215)

\* a mixed-case 6-digit string with '#' has been converted
C1_Witness ==
    /\ HexDone
    /\ arg = <<"#", "a", "0", "F", "a", "0", "F">>
    /\ ret = Result(10549775, ErrNil)

\* C2: for every 3-hex-digit string abc, in any case, with or without '#',
\* hexToDecimal succeeds and returns what it returns for aabbcc.
C2_ShortFormDoubles ==
    (HexDone /\ IsHexOfLen(arg, 3)) =>
        LET abc == Stripped(arg)
            aabbcc == hexToDecimal(<<abc[1], abc[1], abc[2], abc[2], abc[3], abc[3]>>)
        IN  /\ ret.err = ErrNil
            /\ aabbcc.err = ErrNil
            /\ ret.val = aabbcc.val

\* a mixed-case 3-digit string with '#' has been converted
C2_Witness ==
    /\ HexDone
    /\ arg = <<"#", "a", "0", "F">>
    /\ ret = Result(11141375, ErrNil)

\* C3 as stated: hexToDecimal("#f5a") and hexToDecimal("ff55aa") both equal 16732330.
C3_AsStated ==
    (HexDone /\ arg \in {<<"#", "f", "5", "a">>, <<"f", "f", "5", "5", "a", "a">>}) =>
        ret = Result(16732330, ErrNil)

\* C3, amended: hexToDecimal("#f5a") and hexToDecimal("ff55aa") both equal
\* 16733610, which is 0xFF55AA.
C3_F5A ==
    (HexDone /\ arg \in {<<"#", "f", "5", "a">>, <<"f", "f", "5", "5", "a", "a">>}) =>
        ret = Result(16733610, ErrNil)

\* "#f5a" has been converted
C3_Witness ==
    /\ HexDone
    /\ arg = <<"#", "f", "5", "a">>
    /\ ret.err = ErrNil
    /\ ret.val = 255 * 65536 + 85 * 256 + 170

\* C4 as stated: a character outside 0-9A-F after normalization gives the
\* invalid-format error; an input of hex digits only whose length is neither
\* 3 nor 6 gives the invalid-length error; no other input fails.
C4_AsStated ==
    HexDone =>
        LET n == Normalized(arg) IN
        /\ ~AllHexDigits(n) => ret.err = ErrHexFormat
        /\ (AllHexDigits(n) /\ Len(n) \notin {3, 6}) => ret.err = ErrHexLength
        /\ (AllHexDigits(n) /\ Len(n) \in {3, 6}) => ret.err = ErrNil

\* C4, amended: an input that is empty after stripping one leading '#', or
\* that then contains a character outside 0-9A-F, gives the invalid-format
\* error; one or more hex digits whose number is neither 3 nor 6 give the
\* invalid-length error; no other input fails.
C4_ErrorKinds ==
    HexDone =>
        LET n == Normalized(arg) IN
        /\ (n = << >> \/ ~AllHexDigits(n)) => ret = Result(0, ErrHexFormat)
        /\ (n # << >> /\ AllHexDigits(n) /\ Len(n) \notin {3, 6}) => ret = Result(0, ErrHexLength)
        /\ (AllHexDigits(n) /\ Len(n) \in {3, 6}) => ret.err = ErrNil

\* a lone '#' has been rejected for its format
C4_Witness ==
    /\ HexDone
    /\ arg = <<"#">>
    /\ ret = Result(0, ErrHexFormat)

----------------------------------------------------------------------------
(* C5 - C7: rgbToDecimal *)

\* the input was drawn as rgb(R, G, B) with every component in 0..255
RgbInRange ==
    /\ origin.kind = "rgb"
    /\ origin.r \in 0..255
    /\ origin.g \in 0..255
    /\ origin.b \in 0..255

Rgb46 == <<"r", "g", "b", "(", "4", "6", ",", "2", "0", "4", ",", "1", "1", "3", ")">>
Rgb46Spaced ==
    <<"r", "g", "b", "(", "4", "6", ",", " ", "2", "0", "4", ",", " ", "1", "1", "3", ")">>

RgbBare == <<"4", "6", ",", " ", "2", "0", "4", ",", " ", "1", "1", "3">>
Rgb256 == <<"r", "g", "b", "(", "2", "5", "6", ",", "0", ",", "0", ")">>
RgbMinus1 == <<"r", "g", "b", "(", "-", "1", ",", "0", ",", "0", ")">>

\* C7 as stated: "46, 204, 113" fails with the invalid-format error, and
\* "rgb(256,0,0)" and "rgb(-1,0,0)" both fail with the out-of-range error.
C7_AsStated ==
    RgbDone =>
        /\ (arg = RgbBare => ret.err = ErrRgbFormat)
        /\ (arg = Rgb256 => ret.err = ErrRedRange)
        /\ (arg = RgbMinus1 => ret.err = ErrRedRange)

\* C7, amended: "46, 204, 113" and "rgb(-1,0,0)" fail with the invalid-format
\* error (the pattern's \d+ takes no sign), and "rgb(256,0,0)" fails with the
\* out-of-range error of the red component.
C7_RgbErrors ==
    RgbDone =>
        /\ (arg = RgbBare => ret = Result(0, ErrRgbFormat))
        /\ (arg = Rgb256 => ret = Result(0, ErrRedRange))
        /\ (arg = RgbMinus1 => ret = Result(0, ErrRgbFormat))

\* "rgb(-1,0,0)" has been rejected for its format
C7_Witness ==
    /\ RgbDone
    /\ arg = RgbMinus1
    /\ ret = Result(0, ErrRgbFormat)

----------------------------------------------------------------------------
(* C8 - C10: the range of the result, the two forms, and Read *)

\* C8: whenever hexToDecimal or rgbToDecimal returns without error, the value
\* is in 0..16777215; so the range check of Read never fires: no run of Read
\* reports 'Invalid Color Range'.
C8_ResultInRange ==
    pc = "done" =>
        /\ (op \in {"hexToDecimal", "rgbToDecimal"} /\ ret.err = ErrNil) => ret.val \in 0..16777215
        /\ op = "Read" => /\ \A i \in 1..Len(diags) : diags[i] # "Invalid Color Range"
                          /\ ret.val \in 0..16777215

\* Read has converted the largest color and passed the range check
C8_Witness ==
    /\ ReadDone
    /\ cfg.rgb = StringValue(<<"r", "g", "b", "(", "2", "5", "5", ",", "2", "5", "5", ",",
                               "2", "5", "5", ")">>)
    /\ ret = Result(16777215, ErrNil)
    /\ state = [set |-> TRUE, dec |-> 16777215]

LowerHexDigits ==
    <<"0", "1", "2", "3", "4", "5", "6", "7", "8", "9", "a", "b", "c", "d", "e", "f">>

\* the two-digit hex encoding of a byte
Hex2(n) == <<LowerHexDigits[(n \div 16) + 1], LowerHexDigits[(n % 16) + 1]>>

\* C9: for all R, G, B in 0..255 the 6-digit hex string made of the two-digit
\* hex encodings of R, G and B converts to what rgbToDecimal gives for
\* rgb(R, G, B), and the result determines the triple (distinct triples give
\* distinct results).
C9_FormsAgree ==
    (RgbDone /\ RgbInRange) =>
        LET h == hexToDecimal(Hex2(origin.r) \o Hex2(origin.g) \o Hex2(origin.b)) IN
        /\ h.err = ErrNil
        /\ ret.err = ErrNil
        /\ h.val = ret.val
        /\ origin.r = ret.val \div 65536
        /\ origin.g = (ret.val \div 256) % 256
        /\ origin.b = ret.val % 256

\* rgb(15, 16, 255), whose hex form is 0f10ff, has been converted
C9_Witness ==
    /\ RgbDone
    /\ origin.kind = "rgb"
    /\ <<origin.r, origin.g, origin.b>> = <<15, 16, 255>>
    /\ hexToDecimal(<<"0", "f", "1", "0", "f", "f">>) = Result(987391, ErrNil)
    /\ ret = Result(987391, ErrNil)

\* x is a known, non-empty string
Supplied(x) == x.kind = "value" /\ x.v # << >>

\* C10: Read writes dec to state iff exactly one of hex and rgb is a known,
\* non-empty string and its conversion succeeds; with neither it reports
\* 'Missing Color Input', with both 'Conflicting Color Input', with a failed
\* conversion 'Invalid Hex Color' / 'Invalid RGB Color'; on each of these
\* paths no state is written, and a failed conversion returns the value 0.
C10_ReadOutcome ==
    /\ (pc = "done" /\ ret.err # ErrNil) => ret.val = 0
    /\ ReadDone =>
        LET sh == Supplied(cfg.hex)
            sr == Supplied(cfg.rgb)
            conv == IF sh THEN hexToDecimal(cfg.hex.v) ELSE rgbToDecimal(cfg.rgb.v)
        IN  /\ state.set <=> ((sh # sr) /\ conv.err = ErrNil)
            /\ state.set => (state.dec = conv.val /\ diags = << >>)
            /\ (~sh /\ ~sr) => diags = <<"Missing Color Input">>
            /\ (sh /\ sr) => diags = <<"Conflicting Color Input">>
            /\ (sh /\ ~sr /\ conv.err # ErrNil) => (diags = <<"Invalid Hex Color">> /\ ret.val = 0)
            /\ (sr /\ ~sh /\ conv.err # ErrNil) => (diags = <<"Invalid RGB Color">> /\ ret.val = 0)
            /\ diags # << >> => state = NoState

\* Read has written dec for a configuration whose rgb is the empty string
C10_Witness ==
    /\ ReadDone
    /\ cfg = [hex |-> StringValue(<<"#", "f", "5", "a">>), rgb |-> StringValue(<< >>)]
    /\ diags = << >>
    /\ state = [set |-> TRUE, dec |-> 16733610]

----------------------------------------------------------------------------
(* Part 2: the channel type codec, resource_channel.go *)

\* discordgo.ChannelType values the two switches name
ChannelTypeGuildText == 0

ChannelTypeGuildVoice == 2

ChannelTypeGuildCategory == 4

ChannelTypeGuildNews == 5

ChannelTypeGuildStageVoice == 13

ChannelTypeGuildDirectory == 14

ChannelTypeGuildForum == 15

ChannelTypeGuildMedia == 16

ErrInvalidChannelType == "invalid channel type"

\* the default arm of channelTypeFromString: the zero value the caller must not use
FromStringDefault_Accepting(typeStr) == Result(ChannelTypeGuildText, ErrNil)

FromStringDefault(typeStr) == Result(ChannelTypeGuildText, ErrInvalidChannelType)

\* channelTypeFromString with an arm for "news" added
channelTypeFromString_WithNews(typeStr) ==
    CASE typeStr \in {"text", ""} -> Result(ChannelTypeGuildText, ErrNil)
      [] typeStr = "voice"        -> Result(ChannelTypeGuildVoice, ErrNil)
      [] typeStr = "category"     -> Result(ChannelTypeGuildCategory, ErrNil)
      [] typeStr = "news"         -> Result(ChannelTypeGuildNews, ErrNil)
      [] typeStr = "media"        -> Result(ChannelTypeGuildMedia, ErrNil)
      [] typeStr = "directory"    -> Result(ChannelTypeGuildDirectory, ErrNil)
      [] OTHER                    -> FromStringDefault(typeStr)

\* channelTypeFromString. A type name is a Go string compared whole by the
\* switch, so here it is a TLA+ string: only equality is used.
channelTypeFromString(typeStr) ==
    CASE typeStr \in {"text", ""} -> Result(ChannelTypeGuildText, ErrNil)
      [] typeStr = "voice"        -> Result(ChannelTypeGuildVoice, ErrNil)
      [] typeStr = "category"     -> Result(ChannelTypeGuildCategory, ErrNil)
      [] typeStr = "media"        -> Result(ChannelTypeGuildMedia, ErrNil)
      [] typeStr = "directory"    -> Result(ChannelTypeGuildDirectory, ErrNil)
      [] OTHER                    -> FromStringDefault(typeStr)

\* the default arm of channelTypeToString
ToStringDefault_Unknown(channelType) == "unknown"

ToStringDefault(channelType) == "text"

\* channelTypeToString
channelTypeToString(channelType) ==
    CASE channelType = ChannelTypeGuildText       -> "text"
      [] channelType = ChannelTypeGuildVoice      -> "voice"
      [] channelType = ChannelTypeGuildCategory   -> "category"
      [] channelType = ChannelTypeGuildNews       -> "news"
      [] channelType = ChannelTypeGuildStageVoice -> "stage"
      [] channelType = ChannelTypeGuildForum      -> "forum"
      [] channelType = ChannelTypeGuildMedia      -> "media"
      [] channelType = ChannelTypeGuildDirectory  -> "directory"
      [] OTHER                                    -> ToStringDefault(channelType)

\* Inputs of the codec. The names: those of the two switches, the rejected
\* ones of TestChannelTypeFromString, and near misses in case and spacing.
TypeNames ==
    {"text", "", "voice", "category", "news", "stage", "forum", "media",
     "directory", "invalid", "Text", "VOICE", " text", "text ", "announcement",
     "thread", "dm", "0"}

\* largest channel type number drawn, besides the 999 of TestChannelTypeToString
MaxChannelType == 17

TypeNumbers == (-1 .. MaxChannelType) \cup {999}

----------------------------------------------------------------------------
(* Part 2: composite import IDs and the ImportState handlers *)

\* longest run of import-ID characters drawn as (the head of) an import ID
MaxIdLen == 5

Colon == ":"

\* position of the last ':' of s, 0 when there is none (the code's -1)
LastColon_First(s) ==
    IF \E i \in 1..Len(s) : s[i] = Colon
    THEN CHOOSE i \in 1..Len(s) : s[i] = Colon /\ \A j \in 1..(i-1) : s[j] # Colon
    ELSE 0

LastColon(s) ==
    IF \E i \in 1..Len(s) : s[i] = Colon
    THEN CHOOSE i \in 1..Len(s) : s[i] = Colon /\ \A j \in (i+1)..Len(s) : s[j] # Colon
    ELSE 0

\* position of the first ':' of s, 0 when there is none
FirstColon_Last(s) == LastColon(s)

FirstColon(s) ==
    IF \E i \in 1..Len(s) : s[i] = Colon
    THEN CHOOSE i \in 1..Len(s) : s[i] = Colon /\ \A j \in 1..(i-1) : s[j] # Colon
    ELSE 0

\* s[:i] and s[i+1:] around the ':' at (1-based) position i
Before(s, i) == SubSeq(s, 1, i - 1)

After(s, i) == SubSeq(s, i + 1, Len(s))

\* strings.Split(s, ":"): cut at every ':'; a string without ':' (the empty
\* one too) gives one part
Split_AtFirst(s) ==
    IF FirstColon(s) = 0 THEN <<s>>
    ELSE <<Before(s, FirstColon(s)), After(s, FirstColon(s))>>

RECURSIVE Split(_)
Split(s) ==
    IF FirstColon(s) = 0 THEN <<s>>
    ELSE <<Before(s, FirstColon(s))>> \o Split(After(s, FirstColon(s)))

\* the loop of messageResource.ImportState: the two sides of the first ':',
\* or nothing
splitParts(importID) ==
    IF FirstColon(importID) = 0 THEN << >>
    ELSE <<Before(importID, FirstColon(importID)), After(importID, FirstColon(importID))>>

\* resp.State before any attribute is set, and State.SetAttribute
NoAttributes == << >>

SetAttribute(st, name, value) ==
    [a \in DOMAIN st \cup {name} |-> IF a = name THEN value ELSE st[a]]

\* the locals of a handler before it assigned any
NoLocals == << >>

ClientNil == "nil"

ClientSession == "session"

\* the test every handler that talks to Discord makes first: r.client == nil
ClientMissing_Never(c) == FALSE

ClientMissing(c) == c = ClientNil

\* roleMemberResource.ImportState: the test on the number of parts
WrongPartCount_AtLeast(parts) == Len(parts) < 3

WrongPartCount(parts) == Len(parts) # 3

\* discordgo.PermissionOverwriteType values of the switch on typeStr
PermissionOverwriteTypeRole == 0

PermissionOverwriteTypeMember == 1

TypeRole == <<"r", "o", "l", "e">>

TypeMember == <<"m", "e", "m", "b", "e", "r">>

\* r.client.Channel(channelID): an error, or the channel with its
\* PermissionOverwrites. Discord is the environment: the overwrites it returns
\* are drawn, here among lists over the decoded overwrite id and another id.
ChannelError == [err |-> "error", PermissionOverwrites |-> << >>]

Overwrite(id, type, allow, deny) == [ID |-> id, Type |-> type, Allow |-> allow, Deny |-> deny]

ChannelResults(overwriteID) ==
    LET other == Overwrite(<<"z">>, PermissionOverwriteTypeRole, 8, 0)
        role == Overwrite(overwriteID, PermissionOverwriteTypeRole, 1024, 2048)
        member == Overwrite(overwriteID, PermissionOverwriteTypeMember, 2048, 1024)
    IN  {ChannelError} \cup
        {[err |-> "nil", PermissionOverwrites |-> l] :
            l \in {<< >>, <<other, role>>, <<member>>, <<other, member, role>>}}

\* the loop over channel.PermissionOverwrites: the first entry with the id and
\* the type, 0 (the code's nil) when there is none
FindOverwrite(overwrites, overwriteID, overwriteType) ==
    LET hit(i) == overwrites[i].ID = overwriteID /\ overwrites[i].Type = overwriteType
    IN  IF \E i \in 1..Len(overwrites) : hit(i)
        THEN CHOOSE i \in 1..Len(overwrites) : hit(i) /\ \A j \in 1..(i-1) : ~hit(j)
        ELSE 0

\* fmt.Sprintf("%s:%s", a, b)
Join2(a, b) == a \o <<Colon>> \o b

\* roleMemberResource.ImportState
RoleMemberImportState ==
    /\ pc = "call"
    /\ op = "ImportState"
    /\ res = "discord_role_member"
    /\ LET importID == arg
           parts == Split(importID)
       IN  IF importID = << >>
           THEN /\ diags' = Append(diags, "Invalid Import ID")
                /\ state' = NoAttributes
           ELSE IF WrongPartCount(parts)
           THEN /\ diags' = Append(diags, "Invalid Import ID Format")
                /\ state' = NoAttributes
           ELSE /\ state' = SetAttribute(SetAttribute(SetAttribute(SetAttribute(
                               NoAttributes, "guild_id", parts[1]),
                               "role_id", parts[2]), "user_id", parts[3]), "id", importID)
                /\ UNCHANGED diags
    /\ pc' = "done"
    /\ UNCHANGED <<op, arg, origin, cfg, ret, res, discord, client, calls>>

\* messageResource.ImportState
MessageImportState ==
    /\ pc = "call"
    /\ op = "ImportState"
    /\ res = "discord_message"
    /\ LET importID == arg
           parts == splitParts(importID)
       IN  IF importID = << >>
           THEN /\ diags' = Append(diags, "Invalid Import ID")
                /\ state' = NoAttributes
           ELSE IF Len(parts) # 2
           THEN /\ diags' = Append(diags, "Invalid Import ID Format")
                /\ state' = NoAttributes
           ELSE /\ state' = SetAttribute(SetAttribute(SetAttribute(
                               NoAttributes, "channel_id", parts[1]),
                               "message_id", parts[2]), "id", parts[2])
                /\ UNCHANGED diags
    /\ pc' = "done"
    /\ UNCHANGED <<op, arg, origin, cfg, ret, res, discord, client, calls>>

\* emojiResource.ImportState
EmojiImportState ==
    /\ pc = "call"
    /\ op = "ImportState"
    /\ res = "discord_emoji"
    /\ LET importID == arg
           parts == Split(importID)
       IN  IF importID = << >>
           THEN /\ diags' = Append(diags, "Invalid Import ID")
                /\ state' = NoAttributes
           ELSE IF Len(parts) # 2
           THEN /\ diags' = Append(diags, "Invalid Import ID Format")
                /\ state' = NoAttributes
           ELSE /\ state' = SetAttribute(SetAttribute(
                               NoAttributes, "guild_id", parts[1]), "id", parts[2])
                /\ UNCHANGED diags
    /\ pc' = "done"
    /\ UNCHANGED <<op, arg, origin, cfg, ret, res, discord, client, calls>>

\* channelPermissionResource.ImportState. ret holds the locals channelID,
\* overwriteID and typeStr once the handler has assigned them.
ChannelPermissionImportState ==
    /\ pc = "call"
    /\ op = "ImportState"
    /\ res = "discord_channel_permission"
    /\ LET importID == arg
           lastColon == LastColon(importID)
           prefix == Before(importID, lastColon)
           typeStr == After(importID, lastColon)
           firstColon == FirstColon(prefix)
           channelID == Before(prefix, firstColon)
           overwriteID == After(prefix, firstColon)
           overwriteType == IF typeStr = TypeRole THEN PermissionOverwriteTypeRole
                            ELSE PermissionOverwriteTypeMember
           locals == [channelID |-> channelID, overwriteID |-> overwriteID, typeStr |-> typeStr]
       IN  IF lastColon = 0
           THEN /\ diags' = Append(diags, "Invalid Import ID")
                /\ state' = NoAttributes
                /\ UNCHANGED <<ret, calls>>
           ELSE IF firstColon = 0
           THEN /\ diags' = Append(diags, "Invalid Import ID")
                /\ state' = NoAttributes
                /\ UNCHANGED <<ret, calls>>
           ELSE IF typeStr \notin {TypeRole, TypeMember}
           THEN /\ diags' = Append(diags, "Invalid Type")
                /\ state' = NoAttributes
                /\ ret' = locals
                /\ UNCHANGED calls
           ELSE IF ClientMissing(client)
           THEN /\ diags' = Append(diags, "Discord Client Not Configured")
                /\ state' = NoAttributes
                /\ ret' = locals
                /\ UNCHANGED calls
           ELSE \E channel \in ChannelResults(overwriteID) :
                /\ calls' = Append(calls, <<"Channel", channelID>>)
                /\ ret' = locals
                /\ LET at == FindOverwrite(channel.PermissionOverwrites, overwriteID, overwriteType)
                       overwrite == channel.PermissionOverwrites[at]
                   IN  IF channel.err # "nil"
                       THEN /\ diags' = Append(diags, "Error Fetching Channel")
                            /\ state' = NoAttributes
                       ELSE IF at = 0
                       THEN /\ diags' = Append(diags, "Permission Overwrite Not Found")
                            /\ state' = NoAttributes
                       ELSE /\ state' = [id |-> Join2(channelID, overwriteID),
                                         channel_id |-> channelID,
                                         type |-> typeStr,
                                         overwrite_id |-> overwriteID,
                                         allow |-> overwrite.Allow,
                                         deny |-> overwrite.Deny]
                            /\ UNCHANGED diags
    /\ pc' = "done"
    /\ UNCHANGED <<op, arg, origin, cfg, res, discord, client>>

\* the two codec functions, applied to the drawn argument
CallChannelTypeFromString ==
    /\ pc = "call"
    /\ op = "channelTypeFromString"
    /\ ret' = channelTypeFromString(arg)
    /\ pc' = "done"
    /\ UNCHANGED <<op, arg, origin, cfg, diags, state, res, discord, client, calls>>

CallChannelTypeToString ==
    /\ pc = "call"
    /\ op = "channelTypeToString"
    /\ ret' = channelTypeToString(arg)
    /\ pc' = "done"
    /\ UNCHANGED <<op, arg, origin, cfg, diags, state, res, discord, client, calls>>

\* Inputs of the handlers: every string over two id characters and ':' up to
\* MaxIdLen, and for discord_channel_permission each of them followed by a
\* type, right or wrong.
IdAlphabet == {"a", "b", Colon}

IdRuns == UNION {[1..n -> IdAlphabet] : n \in 0..MaxIdLen}

TypeTails ==
    {<< >>, <<Colon>> \o TypeRole, <<Colon>> \o TypeMember, <<Colon, "r", "o", "l">>,
     <<Colon, "R", "o", "l", "e">>, <<Colon>> \o TypeRole \o <<"s">>}

PermissionIds == {p \o t : p \in IdRuns, t \in TypeTails}

ParseInit ==
    /\ discord = << >>
    /\ pc = "call"
    /\ diags = << >>
    /\ state = NoAttributes
    /\ calls = << >>
    /\ cfg = NoConfig
    /\ origin = RawOrigin
    /\ \/ /\ op = "channelTypeFromString"
          /\ res = "discord_channel"
          /\ client = ClientNil
          /\ arg \in TypeNames
          /\ ret = Result(0, ErrNil)
       \/ /\ op = "channelTypeToString"
          /\ res = "discord_channel"
          /\ client = ClientNil
          /\ arg \in TypeNumbers
          /\ ret = ""
       \/ /\ op = "ImportState"
          /\ res \in {"discord_role_member", "discord_message", "discord_emoji"}
          /\ client \in {ClientNil, ClientSession}
          /\ arg \in IdRuns
          /\ ret = NoLocals
       \/ /\ op = "ImportState"
          /\ res = "discord_channel_permission"
          /\ client \in {ClientNil, ClientSession}
          /\ arg \in PermissionIds
          /\ ret = NoLocals

ParseNext ==
    \/ CallChannelTypeFromString
    \/ CallChannelTypeToString
    \/ RoleMemberImportState
    \/ MessageImportState
    \/ EmojiImportState
    \/ ChannelPermissionImportState

ParseSpec == ParseInit /\ [][ParseNext]_vars

----------------------------------------------------------------------------
(* Vocabulary of the codec properties, defined apart from the functions *)

FromStringDone == op = "channelTypeFromString" /\ pc = "done"

ToStringDone == op = "channelTypeToString" /\ pc = "done"

\* the five types a configuration may name, the three that are read-only, and
\* the table of names
CreatableNames == {"text", "voice", "category", "media", "directory"}

ReadOnlyNames == {"news", "stage", "forum"}

NameTable ==
    {<<0, "text">>, <<2, "voice">>, <<4, "category">>, <<5, "news">>, <<13, "stage">>,
     <<14, "directory">>, <<15, "forum">>, <<16, "media">>}

NamedNumbers == {e[1] : e \in NameTable}

NumberOf(name) == (CHOOSE e \in NameTable : e[2] = name)[1]

NameOf(n) == (CHOOSE e \in NameTable : e[1] = n)[2]

NumbersOf(names) == {NumberOf(name) : name \in names}

----------------------------------------------------------------------------
(* C11: channelTypeFromString maps "text" and "" to the text type and      *)
(* "voice", "category", "media", "directory" to their types without error, *)
(* and returns the 'invalid channel type' error for every other string,    *)
(* "news", "stage" and "forum" included.                                   *)
C11_FromString ==
    FromStringDone =>
        /\ arg = "" => ret = Result(NumberOf("text"), ErrNil)
        /\ arg \in CreatableNames => ret = Result(NumberOf(arg), ErrNil)
        /\ arg \notin CreatableNames \cup {""} => ret.err = ErrInvalidChannelType

C11_Witness ==
    /\ FromStringDone
    /\ arg \in ReadOnlyNames
    /\ ret.err = ErrInvalidChannelType

(* C12: channelTypeToString is total: it returns the eight names for the   *)
(* eight numeric types and "text" for every other numeric value.           *)
C12_ToString ==
    ToStringDone =>
        /\ arg \in NamedNumbers => ret = NameOf(arg)
        /\ arg \notin NamedNumbers => ret = "text"

C12_Witness ==
    /\ ToStringDone
    /\ arg = 999
    /\ ret = "text"

(* C13: ToString(FromString(s)) = s for the five creatable names;          *)
(* FromString(ToString(n)) = n exactly when n is one of the five creatable *)
(* types; for news, stage and forum the way back is the invalid-type       *)
(* error, and for any other number it is the text type.                    *)
C13_RoundTrip ==
    /\ FromStringDone /\ arg \in CreatableNames =>
           /\ ret.err = ErrNil
           /\ channelTypeToString(ret.val) = arg
    /\ ToStringDone =>
           LET back == channelTypeFromString(ret)
           IN  /\ (back = Result(arg, ErrNil)) <=> arg \in NumbersOf(CreatableNames)
               /\ (back.val = arg) <=> arg \in NumbersOf(CreatableNames)
               /\ arg \in NumbersOf(ReadOnlyNames) => back.err = ErrInvalidChannelType
               /\ arg \notin NamedNumbers => back = Result(NumberOf("text"), ErrNil)

C13_Witness ==
    /\ ToStringDone
    /\ arg = NumberOf("forum")
    /\ ret = "forum"
    /\ channelTypeFromString(ret).err = ErrInvalidChannelType

----------------------------------------------------------------------------
(* Vocabulary of the import properties, defined apart from the handlers *)

ImportDone(resource) == op = "ImportState" /\ res = resource /\ pc = "done"

ColonPositions(s) == {i \in 1..Len(s) : s[i] = ":"}

ColonCount(s) == Cardinality(ColonPositions(s))

Min(S) == CHOOSE x \in S : \A y \in S : x <= y

Max(S) == CHOOSE x \in S : \A y \in S : y <= x

\* the text of s strictly between positions i and j
Between(s, i, j) == [k \in 1..(j - i - 1) |-> s[i + k]]

BeforeFirstColon(s) == Between(s, 0, Min(ColonPositions(s)))

AfterFirstColon(s) == Between(s, Min(ColonPositions(s)), Len(s) + 1)

AfterLastColon(s) == Between(s, Max(ColonPositions(s)), Len(s) + 1)

BetweenOuterColons(s) == Between(s, Min(ColonPositions(s)), Max(ColonPositions(s)))

\* the segments of s are the runs between consecutive ':'; one of them is empty
HasEmptySegment(s) ==
    \/ s = << >>
    \/ s[1] = ":"
    \/ s[Len(s)] = ":"
    \/ \E i \in 1..(Len(s) - 1) : s[i] = ":" /\ s[i + 1] = ":"

\* the two summaries under which a handler reports a malformed import ID
InvalidImportID(d) ==
    /\ Len(d) = 1
    /\ d[1] \in {"Invalid Import ID", "Invalid Import ID Format"}

Str_abb == <<"a", ":", "b", ":", "b">>

Str_aba == <<"a", ":", "b", ":", "a">>

----------------------------------------------------------------------------
(* C15: roleMemberResource.ImportState succeeds exactly when the import ID *)
(* splits on ':' into exactly 3 segments; otherwise it reports an Invalid  *)
(* Import ID error and sets no attribute; on success guild_id, role_id and *)
(* user_id are the three segments in order.                                *)
C15_RoleMemberImport ==
    ImportDone("discord_role_member") =>
        /\ (diags = << >>) <=> ColonCount(arg) = 2
        /\ ColonCount(arg) # 2 => InvalidImportID(diags) /\ state = NoAttributes
        /\ ColonCount(arg) = 2 =>
               /\ state.guild_id = BeforeFirstColon(arg)
               /\ state.role_id = BetweenOuterColons(arg)
               /\ state.user_id = AfterLastColon(arg)

C15_Witness ==
    /\ ImportDone("discord_role_member")
    /\ arg = Str_abb
    /\ diags = << >>
    /\ state.guild_id = <<"a">> /\ state.role_id = <<"b">> /\ state.user_id = <<"b">>

(* C16 as stated: each 2-segment parser (discord_message, discord_emoji)   *)
(* splits at the first ':' and fails with Invalid Import ID only when the  *)
(* ID has no ':'.                                                          *)
C16_AsStated ==
    \A r \in {"discord_message", "discord_emoji"} :
        ImportDone(r) =>
            /\ ColonCount(arg) = 0 => InvalidImportID(diags) /\ state = NoAttributes
            /\ ColonCount(arg) > 0 =>
                   /\ diags = << >>
                   /\ state.id = AfterFirstColon(arg)
                   /\ r = "discord_message" => state.channel_id = BeforeFirstColon(arg)
                   /\ r = "discord_emoji" => state.guild_id = BeforeFirstColon(arg)

(* C16 amended: discord_message splits at the first ':' (so 'a:b:c' gives  *)
(* 'a' and 'b:c') and fails with Invalid Import ID only when the ID has no *)
(* ':'; discord_emoji splits at every ':' and fails with Invalid Import ID *)
(* unless there is exactly one ':', so it rejects 'a:b:c'.                 *)
C16_TwoSegment ==
    /\ ImportDone("discord_message") =>
           /\ ColonCount(arg) = 0 => InvalidImportID(diags) /\ state = NoAttributes
           /\ ColonCount(arg) > 0 =>
                  /\ diags = << >>
                  /\ state.channel_id = BeforeFirstColon(arg)
                  /\ state.message_id = AfterFirstColon(arg)
                  /\ state.id = AfterFirstColon(arg)
    /\ ImportDone("discord_emoji") =>
           /\ ColonCount(arg) # 1 => InvalidImportID(diags) /\ state = NoAttributes
           /\ ColonCount(arg) = 1 =>
                  /\ diags = << >>
                  /\ state.guild_id = BeforeFirstColon(arg)
                  /\ state.id = AfterFirstColon(arg)

C16_Witness ==
    /\ ImportDone("discord_emoji")
    /\ arg = Str_aba
    /\ InvalidImportID(diags)
    /\ state = NoAttributes

(* C17: every composite parser (role_member, message, emoji,               *)
(* channel_permission) rejects with Invalid Import ID any ID with an empty *)
(* segment and sets no state attribute.                                    *)
C17_AsStated ==
    \A r \in {"discord_role_member", "discord_message", "discord_emoji",
              "discord_channel_permission"} :
        ImportDone(r) /\ HasEmptySegment(arg) =>
            InvalidImportID(diags) /\ state = NoAttributes

(* C18: channelPermissionResource.ImportState decodes 'c:o:t' (c and o     *)
(* without ':') as channel_id c, overwrite_id o, type t; it reports        *)
(* 'Invalid Import ID' when the ID has fewer than two ':' and 'Invalid     *)
(* Type' when t is neither 'role' nor 'member', and in both cases makes no *)
(* API call.                                                               *)
C18_PermissionImport ==
    ImportDone("discord_channel_permission") =>
        /\ ColonCount(arg) < 2 =>
               diags = <<"Invalid Import ID">> /\ calls = << >> /\ state = NoAttributes
        /\ ColonCount(arg) >= 2 /\ AfterLastColon(arg) \notin {TypeRole, TypeMember} =>
               diags = <<"Invalid Type">> /\ calls = << >> /\ state = NoAttributes
        /\ ColonCount(arg) = 2 =>
               /\ ret = [channelID |-> BeforeFirstColon(arg),
                         overwriteID |-> BetweenOuterColons(arg),
                         typeStr |-> AfterLastColon(arg)]
               /\ calls # << >> => calls = << <<"Channel", BeforeFirstColon(arg)>> >>
               /\ state # NoAttributes =>
                      /\ state.channel_id = BeforeFirstColon(arg)
                      /\ state.overwrite_id = BetweenOuterColons(arg)
                      /\ state.type = AfterLastColon(arg)

C18_Witness ==
    /\ ImportDone("discord_channel_permission")
    /\ arg = <<"a", ":", "b", ":">> \o TypeMember
    /\ diags = << >>
    /\ state # NoAttributes
    /\ state.channel_id = <<"a">> /\ state.overwrite_id = <<"b">> /\ state.type = TypeMember

(* C19: a channel_permission import ID with more than two ':' is not       *)
(* rejected as malformed: channel_id is the text before the first ':',     *)
(* type the text after the last ':', and overwrite_id everything between,  *)
(* which then contains ':'.                                                *)
C19_ExtraColons ==
    ImportDone("discord_channel_permission") /\ ColonCount(arg) > 2 =>
        /\ ~InvalidImportID(diags)
        /\ ret = [channelID |-> BeforeFirstColon(arg),
                  overwriteID |-> BetweenOuterColons(arg),
                  typeStr |-> AfterLastColon(arg)]
        /\ ":" \in Range(ret.overwriteID)
        /\ state # NoAttributes =>
               /\ state.channel_id = BeforeFirstColon(arg)
               /\ state.overwrite_id = BetweenOuterColons(arg)
               /\ state.type = AfterLastColon(arg)

C19_Witness ==
    /\ ImportDone("discord_channel_permission")
    /\ arg = <<"a", ":", "b", ":", "a", ":">> \o TypeRole
    /\ diags = << >>
    /\ state # NoAttributes
    /\ state.channel_id = <<"a">>
    /\ state.overwrite_id = <<"b", ":", "a">>
    /\ state.type = TypeRole

----------------------------------------------------------------------------
(* Part 3: Configure and the Create/Read/Update/Delete handlers            *)
(*                                                                         *)
(* One resource instance is followed: the framework issues a request       *)
(* (Request), the handler runs to its return.  state is the Terraform      *)
(* state of the instance, client the resource's client field.  Discord is  *)
(* the environment: the result of each API call is drawn.                  *)

Resources ==
    {"discord_server", "discord_message", "discord_channel", "discord_everyone_role",
     "discord_invite", "discord_role_member", "discord_webhook", "discord_emoji",
     "discord_role", "discord_category", "discord_channel_permission"}

CRUD == {"Create", "Read", "Update", "Delete"}

\* req.ProviderData: nil, a value that is no *discordgo.Session, a session
ProviderDataNil == "nil"

ProviderDataInvalid == "invalid"

ProviderDataSession == "session"

ProviderData == {ProviderDataNil, ProviderDataInvalid, ProviderDataSession}

\* warnings are diagnostics too; HasError looks past them
WarningSummaries ==
    {"Member Not Found", "Role Membership Not Found",
     "Error Removing Old Role Membership", "Cannot Delete @everyone Role",
     "Could Not Delete Old Invite", "Permission Overwrite Not Found in Response"}

HasError(d) == \E i \in 1..Len(d) : d[i] \notin WarningSummaries

\* the values a plan gives guild_id, role_id and user_id: the attributes are
\* required strings with no validator, so empty and ':' may occur
Segments == {<< >>, <<"a">>, <<"b">>, <<"a", ":", "b">>}

RoleMemberPlans == [guild_id : Segments, role_id : Segments, user_id : Segments]

NoPlan == NoConfig

\* fmt.Sprintf("%s:%s:%s", guildID, roleID, userID)
RoleMemberId_Swapped(guildID, roleID, userID) ==
    guildID \o <<Colon>> \o userID \o <<Colon>> \o roleID

RoleMemberId(guildID, roleID, userID) ==
    guildID \o <<Colon>> \o roleID \o <<Colon>> \o userID

\* roleMemberResourceModel written by State.Set
RoleMemberModel(guildID, roleID, userID) ==
    [id |-> RoleMemberId(guildID, roleID, userID),
     guild_id |-> guildID, role_id |-> roleID, user_id |-> userID]

\* the model last stored by Create, Read or Update, and by which (history)
Stored(by, model) == [kind |-> "stored", by |-> by, model |-> model]

\* r.client.GuildMember(guildID, userID): an error, or the member's Roles
MemberResults(roleID) ==
    {[err |-> "error", Roles |-> << >>]} \cup
    {[err |-> "nil", Roles |-> l] : l \in {<< >>, <<roleID>>, <<<<"z">>, roleID>>, <<<<"z">>>>}}

\* an API call that returns an error only
ErrResults == {"nil", "error"}

\* the framework calls a method of the resource
Request ==
    /\ pc = "done"
    /\ pc' = "call"
    /\ diags' = << >>
    /\ calls' = << >>
    /\ \/ /\ op' = "Configure"
          /\ arg' \in ProviderData
          /\ cfg' = NoPlan
       \/ /\ op' = "Create"
          /\ state = NoAttributes
          /\ arg' = << >>
          /\ cfg' \in IF res = "discord_role_member" THEN RoleMemberPlans ELSE {NoPlan}
       \/ /\ op' \in {"Read", "Delete"}
          /\ state # NoAttributes
          /\ arg' = << >>
          /\ cfg' = NoPlan
       \/ /\ op' = "Update"
          /\ state # NoAttributes
          /\ arg' = << >>
          /\ cfg' \in IF res = "discord_role_member" THEN RoleMemberPlans ELSE {NoPlan}
       \/ /\ op' = "ImportState"
          /\ res = "discord_role_member"
          /\ origin # RawOrigin
          /\ arg' = origin.model.id
          /\ cfg' = NoPlan
    /\ UNCHANGED <<origin, ret, state, res, discord, client>>

\* Configure, the same body in every resource
Configure ==
    /\ pc = "call"
    /\ op = "Configure"
    /\ IF arg = ProviderDataNil
       THEN UNCHANGED <<diags, client>>
       ELSE IF arg # ProviderDataSession
       THEN /\ diags' = Append(diags, "Unexpected Resource Configure Type")
            /\ UNCHANGED client
       ELSE /\ client' = ClientSession
            /\ UNCHANGED diags
    /\ pc' = "done"
    /\ UNCHANGED <<op, arg, origin, cfg, ret, state, res, discord, calls>>

\* roleMemberResource.Create
RoleMemberCreate ==
    /\ pc = "call"
    /\ op = "Create"
    /\ res = "discord_role_member"
    /\ LET guildID == cfg.guild_id
           roleID == cfg.role_id
           userID == cfg.user_id
       IN  IF ClientMissing(client)
           THEN /\ diags' = Append(diags, "Discord Client Not Configured")
                /\ UNCHANGED <<state, calls, origin>>
           ELSE IF guildID = << >>
           THEN /\ diags' = Append(diags, "Missing Guild ID")
                /\ UNCHANGED <<state, calls, origin>>
           ELSE IF roleID = << >>
           THEN /\ diags' = Append(diags, "Missing Role ID")
                /\ UNCHANGED <<state, calls, origin>>
           ELSE IF userID = << >>
           THEN /\ diags' = Append(diags, "Missing User ID")
                /\ UNCHANGED <<state, calls, origin>>
           ELSE \E err \in ErrResults :
                /\ calls' = Append(calls, <<"GuildMemberRoleAdd", guildID, userID, roleID>>)
                /\ IF err # "nil"
                   THEN /\ diags' = Append(diags, "Error Adding User to Role")
                        /\ UNCHANGED <<state, origin>>
                   ELSE /\ state' = RoleMemberModel(guildID, roleID, userID)
                        /\ origin' = Stored("Create", state')
                        /\ UNCHANGED diags
    /\ pc' = "done"
    /\ UNCHANGED <<op, arg, cfg, ret, res, discord, client>>

\* roleMemberResource.Read
RoleMemberRead ==
    /\ pc = "call"
    /\ op = "Read"
    /\ res = "discord_role_member"
    /\ LET guildID == state.guild_id
           roleID == state.role_id
           userID == state.user_id
       IN  IF ClientMissing(client)
           THEN /\ diags' = Append(diags, "Discord Client Not Configured")
                /\ UNCHANGED <<state, calls, origin>>
           ELSE IF guildID = << >> \/ roleID = << >> \/ userID = << >>
           THEN /\ diags' = Append(diags, "Missing Required Fields")
                /\ UNCHANGED <<state, calls, origin>>
           ELSE \E member \in MemberResults(roleID) :
                /\ calls' = Append(calls, <<"GuildMember", guildID, userID>>)
                /\ LET hasRole == \E i \in 1..Len(member.Roles) : member.Roles[i] = roleID
                   IN  IF member.err # "nil"
                       THEN /\ diags' = Append(diags, "Member Not Found")
                            /\ state' = NoAttributes
                            /\ UNCHANGED origin
                       ELSE IF ~hasRole
                       THEN /\ diags' = Append(diags, "Role Membership Not Found")
                            /\ state' = NoAttributes
                            /\ UNCHANGED origin
                       ELSE /\ state' = RoleMemberModel(guildID, roleID, userID)
                            /\ origin' = Stored("Read", state')
                            /\ UNCHANGED diags
    /\ pc' = "done"
    /\ UNCHANGED <<op, arg, cfg, ret, res, discord, client>>

\* roleMemberResource.Update
RoleMemberUpdate ==
    /\ pc = "call"
    /\ op = "Update"
    /\ res = "discord_role_member"
    /\ LET oldGuildID == state.guild_id
           oldRoleID == state.role_id
           oldUserID == state.user_id
           newGuildID == cfg.guild_id
           newRoleID == cfg.role_id
           newUserID == cfg.user_id
           changed == oldGuildID # newGuildID \/ oldRoleID # newRoleID \/ oldUserID # newUserID
           removes == changed /\ oldGuildID # << >> /\ oldRoleID # << >> /\ oldUserID # << >>
           adds == changed /\ newGuildID # << >> /\ newRoleID # << >> /\ newUserID # << >>
           remove == <<"GuildMemberRoleRemove", oldGuildID, oldUserID, oldRoleID>>
           add == <<"GuildMemberRoleAdd", newGuildID, newUserID, newRoleID>>
       IN  IF ClientMissing(client)
           THEN /\ diags' = Append(diags, "Discord Client Not Configured")
                /\ UNCHANGED <<state, calls, origin>>
           ELSE \E removeErr \in IF removes THEN ErrResults ELSE {"nil"} :
                \E addErr \in IF adds THEN ErrResults ELSE {"nil"} :
                /\ calls' = calls \o (IF removes THEN <<remove>> ELSE << >>)
                                  \o (IF adds THEN <<add>> ELSE << >>)
                /\ LET warned == IF removeErr # "nil"
                                 THEN Append(diags, "Error Removing Old Role Membership")
                                 ELSE diags
                   IN  IF addErr # "nil"
                       THEN /\ diags' = Append(warned, "Error Adding User to New Role")
                            /\ UNCHANGED <<state, origin>>
                       ELSE /\ diags' = warned
                            /\ state' = RoleMemberModel(newGuildID, newRoleID, newUserID)
                            /\ origin' = Stored("Update", state')
    /\ pc' = "done"
    /\ UNCHANGED <<op, arg, cfg, ret, res, discord, client>>

\* roleMemberResource.Delete; the framework removes the state when the
\* handler returns without an error
RoleMemberDelete ==
    /\ pc = "call"
    /\ op = "Delete"
    /\ res = "discord_role_member"
    /\ LET guildID == state.guild_id
           roleID == state.role_id
           userID == state.user_id
       IN  IF ClientMissing(client)
           THEN /\ diags' = Append(diags, "Discord Client Not Configured")
                /\ UNCHANGED <<state, calls>>
           ELSE IF guildID = << >> \/ roleID = << >> \/ userID = << >>
           THEN /\ diags' = Append(diags, "Missing Required Fields")
                /\ UNCHANGED <<state, calls>>
           ELSE \E err \in ErrResults :
                /\ calls' = Append(calls, <<"GuildMemberRoleRemove", guildID, userID, roleID>>)
                /\ IF err # "nil"
                   THEN /\ diags' = Append(diags, "Error Removing User from Role")
                        /\ UNCHANGED state
                   ELSE /\ state' = NoAttributes
                        /\ UNCHANGED diags
    /\ pc' = "done"
    /\ UNCHANGED <<op, arg, origin, cfg, ret, res, discord, client>>

\* every Create, Read, Update and Delete but everyoneRoleResource.Delete
\* tests the client before anything else
TalksToDiscord(resource, method) ==
    method \in CRUD /\ ~(resource = "discord_everyone_role" /\ method = "Delete")

\* the state a resource other than discord_role_member holds once created
Present == [id |-> <<"1">>]

\* Create, Read, Update and Delete of the other resources: the client test
\* they all start with, then the rest of the handler, of which is kept whether
\* it stops on a validation error, calls Discord and fails, finds the object
\* gone, or calls Discord and writes (Delete: lets the framework remove) state
GuardedHandler ==
    /\ pc = "call"
    /\ res # "discord_role_member"
    /\ TalksToDiscord(res, op)
    /\ IF ClientMissing(client)
       THEN /\ diags' = Append(diags, "Discord Client Not Configured")
            /\ UNCHANGED <<state, calls>>
       ELSE \E outcome \in {"invalid", "failed", "gone", "ok"} :
            /\ outcome = "gone" => op = "Read"
            /\ calls' = IF outcome = "invalid" THEN calls ELSE Append(calls, <<res, op>>)
            /\ diags' = IF outcome \in {"invalid", "failed"}
                        THEN Append(diags, "Error") ELSE diags
            /\ state' = CASE outcome \in {"invalid", "failed"} -> state
                          [] outcome = "gone" -> NoAttributes
                          [] OTHER -> IF op = "Delete" THEN NoAttributes ELSE Present
    /\ pc' = "done"
    /\ UNCHANGED <<op, arg, origin, cfg, ret, res, discord, client>>

\* everyoneRoleResource.Delete: a warning and no API call; the framework
\* removes the state
EveryoneRoleDelete ==
    /\ pc = "call"
    /\ op = "Delete"
    /\ res = "discord_everyone_role"
    /\ diags' = Append(diags, "Cannot Delete @everyone Role")
    /\ state' = NoAttributes
    /\ pc' = "done"
    /\ UNCHANGED <<op, arg, origin, cfg, ret, res, discord, client, calls>>

\* what an earlier run of the provider may have left in the Terraform state
PriorStates(resource) ==
    {NoAttributes} \cup
    IF resource = "discord_role_member"
    THEN {RoleMemberModel(p.guild_id, p.role_id, p.user_id) : p \in RoleMemberPlans}
    ELSE {Present}

\* a resource as its constructor returns it: no client; the Terraform state
\* of the instance is empty or left by an earlier run
LifecycleInit ==
    /\ discord = << >>
    /\ res \in Resources
    /\ op = "New"
    /\ pc = "done"
    /\ client = ClientNil
    /\ state \in PriorStates(res)
    /\ diags = << >>
    /\ calls = << >>
    /\ arg = << >>
    /\ cfg = NoPlan
    /\ ret = NoLocals
    /\ origin = RawOrigin

LifecycleNext ==
    \/ Request
    \/ Configure
    \/ RoleMemberCreate
    \/ RoleMemberRead
    \/ RoleMemberUpdate
    \/ RoleMemberDelete
    \/ RoleMemberImportState
    \/ GuardedHandler
    \/ EveryoneRoleDelete

LifecycleSpec == LifecycleInit /\ [][LifecycleNext]_vars

----------------------------------------------------------------------------
(* Vocabulary of the lifecycle properties *)

NoColonIn(s) == \A i \in 1..Len(s) : s[i] # ":"

HandlerReturns == pc = "call" /\ pc' = "done"

----------------------------------------------------------------------------
(* C14: for guild_id, role_id and user_id without ':', the id that         *)
(* roleMemberResource Create, Read or Update stored, passed to ImportState,*)
(* yields guild_id, role_id and user_id equal to the originals and an id   *)
(* equal to the input.                                                     *)
C14_KeyRoundTrip ==
    /\ ImportDone("discord_role_member")
    /\ origin.kind = "stored"
    /\ arg = origin.model.id
    /\ NoColonIn(origin.model.guild_id)
    /\ NoColonIn(origin.model.role_id)
    /\ NoColonIn(origin.model.user_id)
    => /\ diags = << >>
       /\ state.guild_id = origin.model.guild_id
       /\ state.role_id = origin.model.role_id
       /\ state.user_id = origin.model.user_id
       /\ state.id = arg

C14_Witness ==
    /\ ImportDone("discord_role_member")
    /\ origin.kind = "stored"
    /\ origin.by = "Update"
    /\ arg = origin.model.id
    /\ origin.model.guild_id = <<"a">>
    /\ origin.model.role_id = <<"b">>
    /\ origin.model.user_id = <<"a">>
    /\ state = origin.model

(* C20: no Discord API call before a successful Configure.  Configure with *)
(* nil provider data reports no error and leaves the client as it was      *)
(* (unset); with a value that is no session it reports 'Unexpected         *)
(* Resource Configure Type' and leaves the client as it was; with a        *)
(* session it stores it.  Every Create, Read, Update or Delete that talks  *)
(* to Discord, invoked while the client is unset, reports 'Discord Client  *)
(* Not Configured', makes no API call and writes no state.                 *)
C20_Step ==
    /\ HandlerReturns /\ op = "Configure" =>
           /\ arg = ProviderDataNil => diags' = << >> /\ client' = client
           /\ arg = ProviderDataInvalid =>
                  diags' = <<"Unexpected Resource Configure Type">> /\ client' = client
           /\ arg = ProviderDataSession => diags' = << >> /\ client' = "session"
    /\ HandlerReturns /\ op \in CRUD /\ client = "nil"
          /\ ~(res = "discord_everyone_role" /\ op = "Delete") =>
           /\ diags' = <<"Discord Client Not Configured">>
           /\ calls' = << >>
           /\ state' = state
    /\ client' # client => op = "Configure" /\ arg = ProviderDataSession
    /\ calls' # << >> => client = "session"

C20_NoCallBeforeConfigure == [][C20_Step]_vars

C20_Witness ==
    /\ pc = "done"
    /\ op = "Update"
    /\ res = "discord_channel"
    /\ client = "nil"
    /\ state # NoAttributes
    /\ diags = <<"Discord Client Not Configured">>
    /\ calls = << >>

----------------------------------------------------------------------------
(* Part 4: discord_webhook, unnamed/part_001 *)

\* a handler stops on an error before it called Discord
Reject(summary) ==
    /\ diags' = Append(diags, summary)
    /\ UNCHANGED <<state, calls, origin>>

\* fmt.Sprintf("https://discord.com/api/webhooks/%s/%s", id, token)
WebhookURL(id, token) == <<"https://discord.com/api/webhooks/">> \o id \o <<"/">> \o token

\* a *discordgo.Webhook returned by the API (isNil: a nil pointer, no error)
Webhook(id, channelID, name, token, full) ==
    [err |-> "nil", isNil |-> FALSE, ID |-> id, ChannelID |-> channelID, Name |-> name,
     Avatar |-> IF full THEN <<"h">> ELSE << >>, Token |-> token,
     GuildID |-> IF full THEN <<"g">> ELSE << >>,
     User |-> IF full THEN <<"u">> ELSE << >>, Type |-> 1]

WebhookErr == [Webhook(<< >>, << >>, << >>, << >>, FALSE) EXCEPT !.err = "error"]

WebhookNil == [Webhook(<< >>, << >>, << >>, << >>, FALSE) EXCEPT !.isNil = TRUE]

\* results of WebhookCreate: an error, nil, or a webhook with or without an id
\* and a token
WebhookCreateResults(channelID, name) ==
    {WebhookErr, WebhookNil} \cup
    {Webhook(id, channelID, name, token, full) :
        id \in {<< >>, <<"w">>}, token \in {<< >>, <<"T">>}, full \in BOOLEAN}

\* results of Webhook(id) and WebhookEdit: an error, or the webhook, whose
\* Token is whatever Discord chooses to return
WebhookFetchResults(id, channelID, name) ==
    {WebhookErr} \cup
    {Webhook(id, channelID, name, token, full) :
        token \in {<< >>, <<"X">>}, full \in BOOLEAN}

\* the avatar rule shared by Create, Read and Update: Discord's value, else
\* the value at hand when it is a non-empty string, else null
AvatarOf(webhook, current) ==
    IF webhook.Avatar # << >> THEN StringValue(webhook.Avatar)
    ELSE IF ~IsNull(current) /\ ~IsUnknown(current) /\ ValueString(current) # << >>
    THEN current
    ELSE StringNull

\* the token Create stores: Discord's, null when it is empty
CreateToken(webhook) ==
    IF webhook.Token # << >> THEN StringValue(webhook.Token) ELSE StringNull

\* the token Read stores: the one in state
ReadToken_FromAPI(data, webhook) == CreateToken(webhook)

ReadToken(data, webhook) ==
    IF IsNull(data.token) \/ IsUnknown(data.token) THEN StringNull ELSE data.token

\* the url Create stores
CreateURL(webhook) ==
    IF webhook.ID # << >> /\ webhook.Token # << >>
    THEN StringValue(WebhookURL(webhook.ID, webhook.Token))
    ELSE StringNull

\* the url Read and Update store
StoredURL(webhook, token) ==
    IF ~IsNull(token) /\ ~IsUnknown(token) /\ ValueString(token) # << >>
    THEN StringValue(WebhookURL(webhook.ID, ValueString(token)))
    ELSE StringNull

\* webhookResourceModel as the three handlers fill it
WebhookModel(webhook, avatar, token, url) ==
    [id |-> StringValue(webhook.ID),
     channel_id |-> StringValue(webhook.ChannelID),
     name |-> StringValue(webhook.Name),
     avatar |-> avatar,
     token |-> token,
     url |-> url,
     guild_id |-> IF webhook.GuildID # << >> THEN StringValue(webhook.GuildID) ELSE StringNull,
     user |-> IF webhook.User # << >> THEN StringValue(webhook.User) ELSE StringNull,
     type |-> webhook.Type]

\* the state ImportState leaves: id set, every other attribute null
ImportedWebhook(webhookID) ==
    [id |-> StringValue(webhookID), channel_id |-> StringNull, name |-> StringNull,
     avatar |-> StringNull, token |-> StringNull, url |-> StringNull,
     guild_id |-> StringNull, user |-> StringNull, type |-> 0]

LongName == [i \in 1..81 |-> "x"]

WebhookPlans ==
    [channel_id : {StringValue(<<"c">>), StringValue(<<"d">>), StringValue(<< >>)},
     name : {StringValue(<< >>), StringValue(<<"n">>), StringValue(LongName)},
     avatar : {StringNull, StringValue(<< >>), StringValue(<<"i">>)}]

\* how the state came about: Created(T) after a Create that stored token T,
\* Imported after ImportState (history)
Created(token) == [kind |-> "created", token |-> token]

Imported == [kind |-> "imported", token |-> StringNull]

\* webhookResource.Create
WebhookCreate ==
    /\ pc = "call"
    /\ op = "Create"
    /\ res = "discord_webhook"
    /\ LET data == cfg
           channelID == ValueString(data.channel_id)
           name == ValueString(data.name)
       IN  IF ClientMissing(client) THEN Reject("Discord Client Not Configured")
           ELSE IF channelID = << >> THEN Reject("Missing Channel ID")
           ELSE IF name = << >> THEN Reject("Missing Webhook Name")
           ELSE IF Len(name) < 1 \/ Len(name) > 80 THEN Reject("Invalid Webhook Name")
           ELSE \E webhook \in WebhookCreateResults(channelID, name) :
                /\ calls' = Append(calls, <<"WebhookCreate", channelID, name>>)
                /\ IF webhook.err # "nil"
                   THEN /\ diags' = Append(diags, "Error Creating Webhook")
                        /\ UNCHANGED <<state, origin>>
                   ELSE IF webhook.isNil
                   THEN /\ diags' = Append(diags, "Webhook Creation Failed")
                        /\ UNCHANGED <<state, origin>>
                   ELSE IF webhook.ID = << >>
                   THEN /\ diags' = Append(diags, "Invalid Webhook Response")
                        /\ UNCHANGED <<state, origin>>
                   ELSE /\ state' = WebhookModel(webhook, AvatarOf(webhook, data.avatar),
                                                 CreateToken(webhook), CreateURL(webhook))
                        /\ origin' = Created(state'.token)
                        /\ UNCHANGED diags
    /\ pc' = "done"
    /\ UNCHANGED <<op, arg, cfg, ret, res, discord, client>>

\* webhookResource.Read
WebhookRead ==
    /\ pc = "call"
    /\ op = "Read"
    /\ res = "discord_webhook"
    /\ LET data == state
           webhookID == ValueString(data.id)
       IN  IF ClientMissing(client) THEN Reject("Discord Client Not Configured")
           ELSE IF webhookID = << >> THEN Reject("Missing Webhook ID")
           ELSE \E webhook \in WebhookFetchResults(webhookID, <<"c">>, <<"n">>) :
                /\ calls' = Append(calls, <<"Webhook", webhookID>>)
                /\ IF webhook.err # "nil"
                   THEN /\ diags' = Append(diags, "Webhook Not Found")
                        /\ state' = NoAttributes
                   ELSE /\ LET token == ReadToken(data, webhook)
                           IN  state' = WebhookModel(webhook, AvatarOf(webhook, data.avatar),
                                                     token, StoredURL(webhook, token))
                        /\ UNCHANGED diags
                /\ UNCHANGED origin
    /\ pc' = "done"
    /\ UNCHANGED <<op, arg, cfg, ret, res, discord, client>>

\* webhookResource.Update
WebhookUpdate ==
    /\ pc = "call"
    /\ op = "Update"
    /\ res = "discord_webhook"
    /\ LET plan == cfg
           webhookID == ValueString(state.id)
           name == ValueString(plan.name)
           avatar == IF ~IsNull(plan.avatar) /\ ~IsUnknown(plan.avatar)
                     THEN ValueString(plan.avatar)
                     ELSE IF ~IsNull(state.avatar) /\ ~IsUnknown(state.avatar)
                     THEN ValueString(state.avatar)
                     ELSE << >>
           channelID == ValueString(state.channel_id)
       IN  IF ClientMissing(client) THEN Reject("Discord Client Not Configured")
           ELSE IF webhookID = << >> THEN Reject("Missing Webhook ID")
           ELSE IF ValueString(plan.channel_id) # ValueString(state.channel_id)
           THEN Reject("Cannot Change Channel")
           ELSE \E webhook \in WebhookFetchResults(webhookID, channelID, name) :
                /\ calls' = Append(calls, <<"WebhookEdit", webhookID, name, avatar, channelID>>)
                /\ IF webhook.err # "nil"
                   THEN /\ diags' = Append(diags, "Error Updating Webhook")
                        /\ UNCHANGED state
                   ELSE /\ LET token == state.token
                           IN  state' = WebhookModel(webhook, AvatarOf(webhook, plan.avatar),
                                                     token, StoredURL(webhook, token))
                        /\ UNCHANGED diags
                /\ UNCHANGED origin
    /\ pc' = "done"
    /\ UNCHANGED <<op, arg, cfg, ret, res, discord, client>>

\* webhookResource.Delete; the framework removes the state when the handler
\* returns without an error
WebhookDelete ==
    /\ pc = "call"
    /\ op = "Delete"
    /\ res = "discord_webhook"
    /\ LET webhookID == ValueString(state.id)
       IN  IF ClientMissing(client) THEN Reject("Discord Client Not Configured")
           ELSE IF webhookID = << >> THEN Reject("Missing Webhook ID")
           ELSE \E err \in ErrResults :
                /\ calls' = Append(calls, <<"WebhookDelete", webhookID>>)
                /\ IF err # "nil"
                   THEN /\ diags' = Append(diags, "Error Deleting Webhook")
                        /\ UNCHANGED state
                   ELSE /\ state' = NoAttributes
                        /\ UNCHANGED diags
                /\ UNCHANGED origin
    /\ pc' = "done"
    /\ UNCHANGED <<op, arg, cfg, ret, res, discord, client>>

\* webhookResource.ImportState
WebhookImportState ==
    /\ pc = "call"
    /\ op = "ImportState"
    /\ res = "discord_webhook"
    /\ LET webhookID == arg
       IN  IF webhookID = << >>
           THEN /\ diags' = Append(diags, "Invalid Import ID")
                /\ UNCHANGED <<state, origin>>
           ELSE /\ state' = ImportedWebhook(webhookID)
                /\ origin' = Imported
                /\ UNCHANGED diags
    /\ pc' = "done"
    /\ UNCHANGED <<op, arg, cfg, ret, res, discord, client, calls>>

\* the framework calls a method of the webhook resource
WebhookRequest ==
    /\ pc = "done"
    /\ res = "discord_webhook"
    /\ pc' = "call"
    /\ diags' = << >>
    /\ calls' = << >>
    /\ \/ /\ op' = "Configure"
          /\ arg' \in ProviderData
          /\ cfg' = NoPlan
       \/ /\ op' = "Create"
          /\ state = NoAttributes
          /\ arg' = << >>
          /\ cfg' \in WebhookPlans
       \/ /\ op' \in {"Read", "Delete"}
          /\ state # NoAttributes
          /\ arg' = << >>
          /\ cfg' = NoPlan
       \/ /\ op' = "Update"
          /\ state # NoAttributes
          /\ arg' = << >>
          /\ cfg' \in WebhookPlans
       \/ /\ op' = "ImportState"
          /\ state = NoAttributes
          /\ arg' \in {<< >>, <<"w">>}
          /\ cfg' = NoPlan
    /\ UNCHANGED <<origin, ret, state, res, discord, client>>

WebhookInit ==
    /\ discord = << >>
    /\ res = "discord_webhook"
    /\ op = "New"
    /\ pc = "done"
    /\ client = ClientNil
    /\ state = NoAttributes
    /\ diags = << >>
    /\ calls = << >>
    /\ arg = << >>
    /\ cfg = NoPlan
    /\ ret = NoLocals
    /\ origin = RawOrigin

WebhookNext ==
    \/ WebhookRequest
    \/ Configure
    \/ WebhookCreate
    \/ WebhookRead
    \/ WebhookUpdate
    \/ WebhookDelete
    \/ WebhookImportState

WebhookSpec == WebhookInit /\ [][WebhookNext]_vars

----------------------------------------------------------------------------
(* Vocabulary of the webhook properties *)

Wrote(methods) == op \in methods /\ pc = "done" /\ diags = << >> /\ state # NoAttributes

NonEmptyString(x) == x.kind = "value" /\ x.v # << >>

(* C21: a webhook token is only obtained at creation: after Create stored  *)
(* token T, every later successful Read or Update leaves token = T in      *)
(* state, never a value from the API; in every state written by Create,    *)
(* Read or Update, url is non-null exactly when token is a non-empty       *)
(* string and then is https://discord.com/api/webhooks/{id}/{token}; after *)
(* ImportState followed by Read both token and url are null.               *)
C21_WebhookToken ==
    /\ res = "discord_webhook" /\ Wrote({"Read", "Update"}) /\ origin.kind = "created" =>
           /\ state.token = origin.token
           /\ state.token # StringValue(<<"X">>)
    /\ res = "discord_webhook" /\ Wrote({"Create", "Read", "Update"}) =>
           /\ ~IsNull(state.url) <=> NonEmptyString(state.token)
           /\ ~IsNull(state.url) =>
                  state.url = StringValue(<<"https://discord.com/api/webhooks/">>
                                          \o state.id.v \o <<"/">> \o state.token.v)
    /\ res = "discord_webhook" /\ Wrote({"Read"}) /\ origin.kind = "imported" =>
           IsNull(state.token) /\ IsNull(state.url)

C21_Witness ==
    /\ res = "discord_webhook"
    /\ Wrote({"Update"})
    /\ origin = Created(StringValue(<<"T">>))
    /\ state.token = StringValue(<<"T">>)
    /\ state.url = StringValue(<<"https://discord.com/api/webhooks/", "w", "/", "T">>)

----------------------------------------------------------------------------
(* Part 4: channelResource.Create, resource_channel.go *)

\* types.Int64
Int64Null == [kind |-> "null", v |-> 0]

Int64Value(n) == [kind |-> "value", v |-> n]

\* the attribute is neither null nor unknown
Known(x) == ~IsNull(x) /\ ~IsUnknown(x)

\* the test on the error of channelTypeFromString
DecodeFailed_Never(err) == FALSE

DecodeFailed(err) == err # ErrNil

\* a *discordgo.Channel returned by the API; Discord chooses what it echoes
Channel(id, type, position, parentID) ==
    [err |-> "nil", isNil |-> FALSE, ID |-> id, Name |-> <<"n">>, Type |-> type,
     GuildID |-> <<"g">>, Position |-> position, ParentID |-> parentID]

ChannelErr == [Channel(<< >>, 0, 0, << >>) EXCEPT !.err = "error"]

ChannelNil == [Channel(<< >>, 0, 0, << >>) EXCEPT !.isNil = TRUE]

ChannelCreateResults(type) ==
    {ChannelErr, ChannelNil} \cup
    {Channel(id, type, 0, parentID) : id \in {<< >>, <<"c">>}, parentID \in {<< >>, <<"p">>}}

\* a null and an unknown types.String of an attribute holding a type name
NameNull == [kind |-> "null", v |-> ""]

NameUnknown == [kind |-> "unknown", v |-> ""]

ChannelPlans ==
    [guild_id : {StringValue(<< >>), StringValue(<<"g">>)},
     name : {StringValue(<< >>), StringValue(<<"n">>)},
     type : {NameNull, NameUnknown} \cup {StringValue(t) : t \in TypeNames},
     category_id : {StringNull, StringValue(<<"p">>)},
     position : {Int64Null, Int64Value(3)}]

\* channelResource.Create. ret holds the locals channelType and err, and which
\* of the explicit news/stage/forum checks stopped the handler.
ChannelCreate ==
    /\ pc = "call"
    /\ op = "Create"
    /\ res = "discord_channel"
    /\ LET data == cfg
           guildID == ValueString(data.guild_id)
           name == ValueString(data.name)
           decoded == IF Known(data.type) THEN channelTypeFromString(data.type.v)
                      ELSE Result(ChannelTypeGuildText, ErrNil)
           channelType == decoded.val
           locals(check) == [val |-> channelType, err |-> decoded.err, check |-> check]
           parentID == IF Known(data.category_id) THEN ValueString(data.category_id) ELSE << >>
           create == <<"GuildChannelCreateComplex", guildID, name, channelType, parentID>>
       IN  IF ClientMissing(client)
           THEN Reject("Discord Client Not Configured") /\ UNCHANGED ret
           ELSE IF guildID = << >>
           THEN Reject("Missing Guild ID") /\ UNCHANGED ret
           ELSE IF name = << >>
           THEN Reject("Missing Channel Name") /\ UNCHANGED ret
           ELSE IF Known(data.type) /\ DecodeFailed(decoded.err)
           THEN Reject("Invalid Channel Type") /\ ret' = locals("none")
           ELSE IF channelType = ChannelTypeGuildCategory /\ Known(data.category_id)
           THEN Reject("Invalid Configuration") /\ ret' = locals("none")
           ELSE IF channelType = ChannelTypeGuildNews
           THEN Reject("Invalid Channel Type") /\ ret' = locals("news")
           ELSE IF channelType = ChannelTypeGuildStageVoice
           THEN Reject("Invalid Channel Type") /\ ret' = locals("stage")
           ELSE IF channelType = ChannelTypeGuildForum
           THEN Reject("Invalid Channel Type") /\ ret' = locals("forum")
           ELSE \E channel \in ChannelCreateResults(channelType) :
                /\ ret' = locals("none")
                /\ UNCHANGED origin
                /\ IF channel.err # "nil"
                   THEN /\ diags' = Append(diags, "Error Creating Channel")
                        /\ calls' = Append(calls, create)
                        /\ UNCHANGED state
                   ELSE IF channel.isNil
                   THEN /\ diags' = Append(diags, "Channel Creation Failed")
                        /\ calls' = Append(calls, create)
                        /\ UNCHANGED state
                   ELSE IF channel.ID = << >>
                   THEN /\ diags' = Append(diags, "Invalid Channel Response")
                        /\ calls' = Append(calls, create)
                        /\ UNCHANGED state
                   ELSE \E editErr \in IF Known(data.position) THEN ErrResults ELSE {"nil"} :
                        LET position == data.position.v
                            edited == Known(data.position) /\ editErr = "nil"
                            final == IF edited THEN [channel EXCEPT !.Position = position]
                                     ELSE channel
                        IN  /\ calls' = calls \o <<create>> \o
                                   (IF Known(data.position)
                                    THEN << <<"ChannelEditComplex", channel.ID, position>> >>
                                    ELSE << >>)
                            /\ diags' = IF Known(data.position) /\ editErr # "nil"
                                        THEN Append(diags, "Error Setting Channel Position")
                                        ELSE diags
                            /\ state' =
                                   [id |-> StringValue(final.ID),
                                    name |-> StringValue(final.Name),
                                    type |-> StringValue(channelTypeToString(final.Type)),
                                    guild_id |-> StringValue(final.GuildID),
                                    position |-> IF Known(data.position)
                                                 THEN Int64Value(final.Position)
                                                 ELSE Int64Null,
                                    category_id |-> IF Known(data.category_id)
                                                       /\ final.ParentID # << >>
                                                    THEN StringValue(final.ParentID)
                                                    ELSE StringNull]
    /\ pc' = "done"
    /\ UNCHANGED <<op, arg, cfg, res, discord, client>>

\* Create is about to be called with a drawn plan, the client set or not
ChannelInit ==
    /\ discord = << >>
    /\ res = "discord_channel"
    /\ op = "Create"
    /\ pc = "call"
    /\ client \in {ClientNil, ClientSession}
    /\ state = NoAttributes
    /\ diags = << >>
    /\ calls = << >>
    /\ arg = << >>
    /\ cfg \in ChannelPlans
    /\ ret = NoLocals
    /\ origin = RawOrigin

ChannelNext == ChannelCreate

ChannelSpec == ChannelInit /\ [][ChannelNext]_vars

----------------------------------------------------------------------------
(* Vocabulary of the channel property *)

CreateDone(resource) == op = "Create" /\ res = resource /\ pc = "done"

\* the API calls of the last handler with the given method name
CallsTo(method) == {i \in 1..Len(calls) : calls[i][1] = method}

\* the plan passes the tests Create makes before it looks at the type
PlanReachesType == client = "session" /\ cfg.guild_id.v # << >> /\ cfg.name.v # << >>

(* C22: channelResource.Create never asks Discord to create a news, stage  *)
(* or forum channel: for every value of type, either the type sent to      *)
(* GuildChannelCreateComplex is one of text, voice, category, media,       *)
(* directory, or Create fails with 'Invalid Channel Type' before any API   *)
(* call; the three explicit news/stage/forum checks in Create are never    *)
(* the ones that stop it.                                                  *)
C22_CreatableOnly ==
    CreateDone("discord_channel") =>
        /\ \A i \in CallsTo("GuildChannelCreateComplex") :
               calls[i][4] \in NumbersOf(CreatableNames)
        /\ PlanReachesType /\ cfg.type.kind = "value"
              /\ cfg.type.v \notin CreatableNames \cup {""} =>
               diags = <<"Invalid Channel Type">> /\ calls = << >> /\ state = NoAttributes
        /\ ret # NoLocals => ret.check = "none"

C22_Witness ==
    /\ CreateDone("discord_channel")
    /\ PlanReachesType
    /\ cfg.type = StringValue("forum")
    /\ diags = <<"Invalid Channel Type">>
    /\ calls = << >>
    /\ ret.check = "none"

----------------------------------------------------------------------------
(* Part 4: discord_invite, internal/provider/resource_invite.go *)

Int64Unknown == [kind |-> "unknown", v |-> 0]

ValueInt64(x) == IF x.kind = "value" THEN x.v ELSE 0

\* types.Bool
BoolNull == [kind |-> "null", v |-> FALSE]

BoolValue(b) == [kind |-> "value", v |-> b]

ValueBool(x) == IF x.kind = "value" THEN x.v ELSE FALSE

\* fmt.Sprintf("https://discord.gg/%s", invite.Code)
InviteURL(code) == <<"https://discord.gg/">> \o code

\* time.Time.Format("2006-01-02T15:04:05Z07:00") of a UTC instant
FormatTime(t) == t \o <<"Z">>

\* the range tests of Create
MaxAgeOutOfRange(maxAge) == maxAge < 0 \/ maxAge > 604800

MaxUsesOutOfRange(maxUses) == maxUses < 0 \/ maxUses > 100

\* a *discordgo.Invite returned by the API: Discord chooses the code and
\* echoes the settings; an invite that never expires has no ExpiresAt
Invite(code, maxAge, maxUses, temporary, unique, uses) ==
    [err |-> "nil", isNil |-> FALSE, Code |-> code, MaxAge |-> maxAge,
     MaxUses |-> maxUses, Temporary |-> temporary, Unique |-> unique,
     Uses |-> uses, CreatedAt |-> <<"t">>,
     ExpiresAt |-> IF maxAge = 0 THEN << >> ELSE <<"e">>]

InviteErr == [Invite(<< >>, 0, 0, FALSE, FALSE, 0) EXCEPT !.err = "error"]

InviteNil == [Invite(<< >>, 0, 0, FALSE, FALSE, 0) EXCEPT !.isNil = TRUE]

\* r.client.ChannelInviteCreate: discordgo returns an error or an invite
InviteCreateResults(maxAge, maxUses, temporary, unique) ==
    {InviteErr} \cup
    {Invite(code, maxAge, maxUses, temporary, unique, 0) : code \in {<< >>, <<"N">>}}

\* r.client.InviteWithCounts(code): the invite of that code, or an error
InviteFetchResults(code, prior) ==
    {InviteErr} \cup
    {Invite(code, prior.max_age.v, prior.max_uses.v, prior.temporary.v, prior.unique.v, uses) :
        uses \in {0, 1}}

\* inviteResourceModel as the handlers fill it from an invite
InviteModel(channelID, invite) ==
    [id |-> StringValue(invite.Code),
     code |-> StringValue(invite.Code),
     channel_id |-> StringValue(channelID),
     max_age |-> Int64Value(invite.MaxAge),
     max_uses |-> Int64Value(invite.MaxUses),
     temporary |-> BoolValue(invite.Temporary),
     unique |-> BoolValue(invite.Unique),
     url |-> StringValue(InviteURL(invite.Code)),
     created_at |-> IF invite.CreatedAt # << >>
                    THEN StringValue(FormatTime(invite.CreatedAt)) ELSE StringNull,
     expires_at |-> IF invite.ExpiresAt # << >>
                    THEN StringValue(FormatTime(invite.ExpiresAt)) ELSE StringNull,
     uses |-> Int64Value(invite.Uses)]

\* the plans: channel_id is required, the four settings are optional and
\* computed, and the schema has no validator
InvitePlans ==
    [channel_id : {StringValue(<< >>), StringValue(<<"c">>), StringValue(<<"d">>)},
     max_age : {Int64Null, Int64Unknown} \cup
               {Int64Value(n) : n \in {-1, 0, 86400, 604800, 604801}},
     max_uses : {Int64Null} \cup {Int64Value(n) : n \in {-1, 0, 100, 101}},
     temporary : {BoolNull, BoolValue(FALSE), BoolValue(TRUE)},
     unique : {BoolNull, BoolValue(TRUE)}]

\* the state an earlier Create or Read left: every attribute has a value
InvitePriorStates ==
    {InviteModel(<<"c">>, Invite(<<"K">>, maxAge, maxUses, FALSE, unique, 0)) :
        maxAge \in {0, 86400}, maxUses \in {0, 100}, unique \in BOOLEAN}

\* the comparison that decides between re-creating and re-reading
NeedsRecreate_AgeOnly(oldMaxAge, newMaxAge, oldMaxUses, newMaxUses, oldTemporary, newTemporary, oldUnique, newUnique) ==
    newMaxAge # oldMaxAge

NeedsRecreate(oldMaxAge, newMaxAge, oldMaxUses, newMaxUses, oldTemporary, newTemporary, oldUnique, newUnique) ==
    \/ newMaxAge # oldMaxAge
    \/ newMaxUses # oldMaxUses
    \/ newTemporary # oldTemporary
    \/ newUnique # oldUnique

\* inviteResource.Create
InviteCreate ==
    /\ pc = "call"
    /\ op = "Create"
    /\ res = "discord_invite"
    /\ LET data == cfg
           channelID == ValueString(data.channel_id)
           maxAge == IF Known(data.max_age) THEN ValueInt64(data.max_age) ELSE 86400
           maxUses == IF Known(data.max_uses) THEN ValueInt64(data.max_uses) ELSE 0
           temporary == IF Known(data.temporary) THEN ValueBool(data.temporary) ELSE FALSE
           unique == IF Known(data.unique) THEN ValueBool(data.unique) ELSE FALSE
       IN  IF ClientMissing(client)
           THEN Reject("Discord Client Not Configured")
           ELSE IF channelID = << >>
           THEN Reject("Missing Channel ID")
           ELSE IF Known(data.max_age) /\ MaxAgeOutOfRange(maxAge)
           THEN Reject("Invalid Max Age")
           ELSE IF Known(data.max_uses) /\ MaxUsesOutOfRange(maxUses)
           THEN Reject("Invalid Max Uses")
           ELSE \E invite \in InviteCreateResults(maxAge, maxUses, temporary, unique)
                                 \cup {InviteNil} :
                /\ calls' = Append(calls, <<"ChannelInviteCreate", channelID, maxAge,
                                            maxUses, temporary, unique, invite.err>>)
                /\ UNCHANGED origin
                /\ IF invite.err # "nil"
                   THEN diags' = Append(diags, "Error Creating Invite") /\ UNCHANGED state
                   ELSE IF invite.isNil
                   THEN diags' = Append(diags, "Invite Creation Failed") /\ UNCHANGED state
                   ELSE IF invite.Code = << >>
                   THEN diags' = Append(diags, "Invalid Invite Response") /\ UNCHANGED state
                   ELSE state' = InviteModel(channelID, invite) /\ UNCHANGED diags
    /\ pc' = "done"
    /\ UNCHANGED <<op, arg, cfg, ret, res, discord, client>>

\* inviteResource.Update. arg is req.State, cfg is req.Plan; ret holds the
\* locals code and needsRecreate once they are computed.
InviteUpdate ==
    /\ pc = "call"
    /\ op = "Update"
    /\ res = "discord_invite"
    /\ LET plan == cfg
           prior == arg
           code == IF ValueString(prior.code) # << >> THEN ValueString(prior.code)
                   ELSE ValueString(prior.id)
           oldMaxAge == ValueInt64(prior.max_age)
           newMaxAge == IF Known(plan.max_age) THEN ValueInt64(plan.max_age) ELSE oldMaxAge
           oldMaxUses == ValueInt64(prior.max_uses)
           newMaxUses == IF Known(plan.max_uses) THEN ValueInt64(plan.max_uses) ELSE oldMaxUses
           oldTemporary == ValueBool(prior.temporary)
           newTemporary == IF Known(plan.temporary) THEN ValueBool(plan.temporary)
                           ELSE oldTemporary
           oldUnique == ValueBool(prior.unique)
           newUnique == IF Known(plan.unique) THEN ValueBool(plan.unique) ELSE oldUnique
           needsRecreate == NeedsRecreate(oldMaxAge, newMaxAge, oldMaxUses, newMaxUses,
                                          oldTemporary, newTemporary, oldUnique, newUnique)
           channelID == ValueString(plan.channel_id)
           maxAge == IF Known(plan.max_age) THEN ValueInt64(plan.max_age) ELSE 86400
           maxUses == IF Known(plan.max_uses) THEN ValueInt64(plan.max_uses) ELSE 0
           temporary == IF Known(plan.temporary) THEN ValueBool(plan.temporary) ELSE FALSE
           unique == IF Known(plan.unique) THEN ValueBool(plan.unique) ELSE FALSE
           locals == [code |-> code, needsRecreate |-> needsRecreate]
       IN  IF ClientMissing(client)
           THEN Reject("Discord Client Not Configured") /\ UNCHANGED ret
           ELSE IF ValueString(plan.channel_id) # ValueString(prior.channel_id)
           THEN Reject("Cannot Change Channel") /\ UNCHANGED ret
           ELSE IF code = << >>
           THEN Reject("Missing Invite Code") /\ UNCHANGED ret
           ELSE IF needsRecreate
           THEN \E delErr \in ErrResults,
                   invite \in InviteCreateResults(maxAge, maxUses, temporary, unique) :
                LET warned == IF delErr # "nil"
                              THEN Append(diags, "Could Not Delete Old Invite")
                              ELSE diags
                IN  /\ ret' = locals
                    /\ UNCHANGED origin
                    /\ calls' = calls \o
                           << <<"InviteDelete", code, delErr>>,
                              <<"ChannelInviteCreate", channelID, maxAge, maxUses,
                                temporary, unique, invite.err>> >>
                    /\ IF invite.err # "nil"
                       THEN /\ diags' = Append(warned, "Error Creating New Invite")
                            /\ UNCHANGED state
                       ELSE /\ diags' = warned
                            /\ state' = InviteModel(channelID, invite)
           ELSE \E invite \in InviteFetchResults(code, prior) :
                /\ ret' = locals
                /\ UNCHANGED origin
                /\ calls' = Append(calls, <<"InviteWithCounts", code>>)
                /\ IF invite.err # "nil"
                   THEN diags' = Append(diags, "Invite Not Found") /\ UNCHANGED state
                   ELSE /\ state' = InviteModel(ValueString(plan.channel_id), invite)
                        /\ UNCHANGED diags
    /\ pc' = "done"
    /\ UNCHANGED <<op, arg, cfg, res, discord, client>>

\* Create is about to be called on no state, or Update on the state of an
\* earlier run, with a drawn plan and the client set or not
InviteInit ==
    /\ discord = << >>
    /\ res = "discord_invite"
    /\ op \in {"Create", "Update"}
    /\ pc = "call"
    /\ client \in {ClientNil, ClientSession}
    /\ cfg \in InvitePlans
    /\ arg \in IF op = "Create" THEN {NoAttributes} ELSE InvitePriorStates
    /\ state = arg
    /\ diags = << >>
    /\ calls = << >>
    /\ ret = NoLocals
    /\ origin = RawOrigin

InviteNext == InviteCreate \/ InviteUpdate

InviteSpec == InviteInit /\ [][InviteNext]_vars

----------------------------------------------------------------------------
(* Vocabulary of the invite properties *)

UpdateDone(resource) == op = "Update" /\ res = resource /\ pc = "done"

InviteSettings == {"max_age", "max_uses", "temporary", "unique"}

\* a setting is known in the plan and differs from the value in state
PlanDiffers == \E a \in InviteSettings : Known(cfg[a]) /\ cfg[a].v # arg[a].v

\* Update gets as far as comparing plan and state
ReachesComparison ==
    /\ client = ClientSession
    /\ ValueString(cfg.channel_id) = ValueString(arg.channel_id)
    /\ ValueString(arg.code) # << >>

\* the handler deleted the invite of the given code
Deleted(code) == \E i \in CallsTo("InviteDelete") : calls[i][2] = code /\ calls[i][3] = "nil"

\* the handler created an invite
Recreated == \E i \in CallsTo("ChannelInviteCreate") : calls[i][7] = "nil"

\* a plan value that Create refuses
PlanOutOfRange ==
    \/ Known(cfg.max_age) /\ (cfg.max_age.v < 0 \/ cfg.max_age.v > 604800)
    \/ Known(cfg.max_uses) /\ (cfg.max_uses.v < 0 \/ cfg.max_uses.v > 100)

C26_AsStated ==
    UpdateDone("discord_invite") /\ Deleted(ValueString(arg.code)) =>
        /\ Recreated
        /\ state # arg
        /\ ~HasError(diags)

(* C27 as stated: every ChannelInviteCreate call of Create and of Update   *)
(* carries max_age within [0, 604800] and max_uses within [0, 100], and a  *)
(* plan outside these ranges is rejected before any API call.              *)
C27_AsStated ==
    res = "discord_invite" /\ pc = "done" =>
        /\ \A i \in CallsTo("ChannelInviteCreate") :
               /\ calls[i][3] >= 0 /\ calls[i][3] <= 604800
               /\ calls[i][4] >= 0 /\ calls[i][4] <= 100
        /\ PlanOutOfRange => calls = << >> /\ HasError(diags)

----------------------------------------------------------------------------
(* Part 4: discord_channel_permission, unnamed/part_010 *)

\* placeholderIDs of Create
PlaceholderIDs ==
    {<<"9", "8", "7", "6", "5", "4", "3", "2", "1", "0", "9", "8", "7", "6", "5", "4", "3", "2">>,
     <<"1", "2", "3", "4", "5", "6", "7", "8", "9", "0", "1", "2", "3", "4", "5", "6", "7", "8">>,
     [i \in 1..18 |-> "1"],
     [i \in 1..18 |-> "0"]}

\* the switch on typeStr: "role", "member", or the default branch
ValidType(typeStr) == typeStr \in {TypeRole, TypeMember}

OverwriteTypeOf(typeStr) ==
    IF typeStr = TypeMember THEN PermissionOverwriteTypeMember
    ELSE PermissionOverwriteTypeRole

\* the loop that copies the fetched overwrites other than the managed one
RECURSIVE KeepOthers_ById(_, _, _)
KeepOthers_ById(existing, overwriteID, overwriteType) ==
    IF existing = << >> THEN << >>
    ELSE LET rest == KeepOthers_ById(Tail(existing), overwriteID, overwriteType)
         IN  IF Head(existing).ID # overwriteID
             THEN <<Head(existing)>> \o rest
             ELSE rest

RECURSIVE KeepOthers(_, _, _)
KeepOthers(existing, overwriteID, overwriteType) ==
    IF existing = << >> THEN << >>
    ELSE LET rest == KeepOthers(Tail(existing), overwriteID, overwriteType)
         IN  IF Head(existing).ID # overwriteID \/ Head(existing).Type # overwriteType
             THEN <<Head(existing)>> \o rest
             ELSE rest

\* channelPermissionResourceModel as the handlers fill it
PermissionModel(channelID, typeStr, overwriteID, allow, deny) ==
    [id |-> Join2(channelID, overwriteID),
     channel_id |-> channelID,
     type |-> typeStr,
     overwrite_id |-> overwriteID,
     allow |-> allow,
     deny |-> deny]

\* r.client.ChannelEditComplex, and the Channel call that refreshes after it:
\* an error, or the channel with the overwrites sent, or with the managed one
\* dropped because Discord knows no such role or member
EditResults(overwrites, overwriteID, overwriteType) ==
    {ChannelError,
     [err |-> "nil", PermissionOverwrites |-> overwrites],
     [err |-> "nil", PermissionOverwrites |-> KeepOthers(overwrites, overwriteID, overwriteType)]}

\* the plans: channel_id, type, overwrite_id and allow are required, deny is
\* optional; no validator
PermissionPlans ==
    [channel_id : {StringValue(<< >>), StringValue(<<"c">>)},
     type : {StringValue(<< >>), StringValue(TypeRole), StringValue(TypeMember),
             StringValue(<<"x">>)},
     overwrite_id : {StringValue(<< >>), StringValue(<<"a">>),
                     StringValue([i \in 1..18 |-> "1"])},
     allow : {Int64Value(1024)},
     deny : {Int64Null, Int64Value(2048)}]

\* the locals a handler has once it fetched the channel
PermissionLocals(fetched, overwriteID, overwriteType) ==
    [fetched |-> fetched, overwriteID |-> overwriteID, overwriteType |-> overwriteType]

\* channelPermissionResource.Create
PermissionCreate ==
    /\ pc = "call"
    /\ op = "Create"
    /\ res = "discord_channel_permission"
    /\ LET data == cfg
           channelID == ValueString(data.channel_id)
           typeStr == ValueString(data.type)
           overwriteType == OverwriteTypeOf(typeStr)
           overwriteID == ValueString(data.overwrite_id)
           allow == IF Known(data.allow) THEN ValueInt64(data.allow) ELSE 0
           deny == IF Known(data.deny) THEN ValueInt64(data.deny) ELSE 0
           overwrite == Overwrite(overwriteID, overwriteType, allow, deny)
           fetch == <<"Channel", channelID>>
       IN  IF ClientMissing(client)
           THEN Reject("Discord Client Not Configured") /\ UNCHANGED ret
           ELSE IF channelID = << >>
           THEN Reject("Missing Channel ID") /\ UNCHANGED ret
           ELSE IF typeStr = << >>
           THEN Reject("Missing Type") /\ UNCHANGED ret
           ELSE IF ~ValidType(typeStr)
           THEN Reject("Invalid Type") /\ UNCHANGED ret
           ELSE IF overwriteID = << >>
           THEN Reject("Missing Overwrite ID") /\ UNCHANGED ret
           ELSE IF overwriteID \in PlaceholderIDs
           THEN Reject("Invalid Overwrite ID") /\ UNCHANGED ret
           ELSE \E channel \in ChannelResults(overwriteID) :
                LET overwrites == Append(KeepOthers(channel.PermissionOverwrites,
                                                    overwriteID, overwriteType), overwrite)
                    edit == <<"ChannelEditComplex", channelID, overwrites>>
                IN  /\ ret' = PermissionLocals(channel.PermissionOverwrites,
                                               overwriteID, overwriteType)
                    /\ IF channel.err # "nil"
                       THEN /\ diags' = Append(diags, "Error Fetching Channel")
                            /\ calls' = Append(calls, fetch)
                            /\ UNCHANGED <<state, origin>>
                       ELSE \E updatedChannel \in EditResults(overwrites, overwriteID, overwriteType) :
                            LET first == FindOverwrite(updatedChannel.PermissionOverwrites,
                                                       overwriteID, overwriteType)
                            IN  IF updatedChannel.err # "nil"
                                THEN /\ diags' = Append(diags, "Error Setting Channel Permission")
                                     /\ calls' = calls \o <<fetch, edit>>
                                     /\ UNCHANGED <<state, origin>>
                                ELSE IF first # 0
                                THEN LET finalOverwrite == updatedChannel.PermissionOverwrites[first]
                                     IN  /\ calls' = calls \o <<fetch, edit>>
                                         /\ state' = PermissionModel(channelID, typeStr, overwriteID,
                                                         finalOverwrite.Allow, finalOverwrite.Deny)
                                         /\ origin' = Stored("Create", state')
                                         /\ UNCHANGED diags
                                ELSE \E refreshedChannel \in EditResults(overwrites, overwriteID, overwriteType) :
                                     LET second == IF refreshedChannel.err = "nil"
                                                   THEN FindOverwrite(refreshedChannel.PermissionOverwrites,
                                                                      overwriteID, overwriteType)
                                                   ELSE 0
                                     IN  /\ calls' = calls \o <<fetch, edit, fetch>>
                                         /\ IF second = 0
                                            THEN /\ diags' = Append(diags, "Permission Overwrite Not Created")
                                                 /\ UNCHANGED <<state, origin>>
                                            ELSE LET finalOverwrite ==
                                                         refreshedChannel.PermissionOverwrites[second]
                                                 IN  /\ state' = PermissionModel(channelID, typeStr,
                                                                     overwriteID, finalOverwrite.Allow,
                                                                     finalOverwrite.Deny)
                                                     /\ origin' = Stored("Create", state')
                                                     /\ UNCHANGED diags
    /\ pc' = "done"
    /\ UNCHANGED <<op, arg, cfg, res, discord, client>>

\* channelPermissionResource.Read
PermissionRead ==
    /\ pc = "call"
    /\ op = "Read"
    /\ res = "discord_channel_permission"
    /\ LET data == state
           channelID == data.channel_id
           typeStr == data.type
           overwriteID == data.overwrite_id
           overwriteType == OverwriteTypeOf(typeStr)
       IN  IF ClientMissing(client)
           THEN Reject("Discord Client Not Configured") /\ UNCHANGED ret
           ELSE IF channelID = << >>
           THEN Reject("Missing Channel ID") /\ UNCHANGED ret
           ELSE IF ~ValidType(typeStr)
           THEN Reject("Invalid Type") /\ UNCHANGED ret
           ELSE \E channel \in ChannelResults(overwriteID) :
                LET at == FindOverwrite(channel.PermissionOverwrites, overwriteID, overwriteType)
                    overwrite == channel.PermissionOverwrites[at]
                IN  /\ ret' = PermissionLocals(channel.PermissionOverwrites,
                                               overwriteID, overwriteType)
                    /\ calls' = Append(calls, <<"Channel", channelID>>)
                    /\ IF channel.err # "nil"
                       THEN /\ diags' = Append(diags, "Error Fetching Channel")
                            /\ UNCHANGED <<state, origin>>
                       ELSE IF at = 0
                       THEN /\ state' = NoAttributes
                            /\ UNCHANGED <<diags, origin>>
                       ELSE /\ state' = PermissionModel(channelID, typeStr, overwriteID,
                                                        overwrite.Allow, overwrite.Deny)
                            /\ origin' = Stored("Read", state')
                            /\ UNCHANGED diags
    /\ pc' = "done"
    /\ UNCHANGED <<op, arg, cfg, res, discord, client>>

\* channelPermissionResource.Update
PermissionUpdate ==
    /\ pc = "call"
    /\ op = "Update"
    /\ res = "discord_channel_permission"
    /\ LET plan == cfg
           channelID == ValueString(plan.channel_id)
           typeStr == ValueString(plan.type)
           overwriteID == ValueString(plan.overwrite_id)
           overwriteType == OverwriteTypeOf(typeStr)
           allow == IF Known(plan.allow) THEN ValueInt64(plan.allow) ELSE 0
           deny == IF Known(plan.deny) THEN ValueInt64(plan.deny) ELSE 0
           overwrite == Overwrite(overwriteID, overwriteType, allow, deny)
           fetch == <<"Channel", channelID>>
       IN  IF ClientMissing(client)
           THEN Reject("Discord Client Not Configured") /\ UNCHANGED ret
           ELSE IF ~ValidType(typeStr)
           THEN Reject("Invalid Type") /\ UNCHANGED ret
           ELSE \E channel \in ChannelResults(overwriteID) :
                LET overwrites == Append(KeepOthers(channel.PermissionOverwrites,
                                                    overwriteID, overwriteType), overwrite)
                    edit == <<"ChannelEditComplex", channelID, overwrites>>
                IN  /\ ret' = PermissionLocals(channel.PermissionOverwrites,
                                               overwriteID, overwriteType)
                    /\ IF channel.err # "nil"
                       THEN /\ diags' = Append(diags, "Error Fetching Channel")
                            /\ calls' = Append(calls, fetch)
                            /\ UNCHANGED <<state, origin>>
                       ELSE \E updatedChannel \in EditResults(overwrites, overwriteID, overwriteType) :
                            LET first == FindOverwrite(updatedChannel.PermissionOverwrites,
                                                       overwriteID, overwriteType)
                            IN  IF updatedChannel.err # "nil"
                                THEN /\ diags' = Append(diags, "Error Updating Channel Permission")
                                     /\ calls' = calls \o <<fetch, edit>>
                                     /\ UNCHANGED <<state, origin>>
                                ELSE IF first # 0
                                THEN LET finalOverwrite == updatedChannel.PermissionOverwrites[first]
                                     IN  /\ calls' = calls \o <<fetch, edit>>
                                         /\ state' = PermissionModel(channelID, typeStr, overwriteID,
                                                         finalOverwrite.Allow, finalOverwrite.Deny)
                                         /\ origin' = Stored("Update", state')
                                         /\ UNCHANGED diags
                                ELSE \E refreshedChannel \in EditResults(overwrites, overwriteID, overwriteType) :
                                     LET second == IF refreshedChannel.err = "nil"
                                                   THEN FindOverwrite(refreshedChannel.PermissionOverwrites,
                                                                      overwriteID, overwriteType)
                                                   ELSE 0
                                     IN  /\ calls' = calls \o <<fetch, edit, fetch>>
                                         /\ IF second = 0
                                            THEN /\ diags' = Append(diags,
                                                        "Permission Overwrite Not Found in Response")
                                                 /\ state' = PermissionModel(channelID, typeStr,
                                                                 overwriteID, allow, deny)
                                            ELSE LET finalOverwrite ==
                                                         refreshedChannel.PermissionOverwrites[second]
                                                 IN  /\ state' = PermissionModel(channelID, typeStr,
                                                                     overwriteID, finalOverwrite.Allow,
                                                                     finalOverwrite.Deny)
                                                     /\ UNCHANGED diags
                                         /\ origin' = Stored("Update", state')
    /\ pc' = "done"
    /\ UNCHANGED <<op, arg, cfg, res, discord, client>>

\* channelPermissionResource.Delete; the framework removes the state when the
\* handler returns without an error
PermissionDelete ==
    /\ pc = "call"
    /\ op = "Delete"
    /\ res = "discord_channel_permission"
    /\ LET data == state
           channelID == data.channel_id
           typeStr == data.type
           overwriteID == data.overwrite_id
           overwriteType == OverwriteTypeOf(typeStr)
           fetch == <<"Channel", channelID>>
       IN  IF ClientMissing(client)
           THEN Reject("Discord Client Not Configured") /\ UNCHANGED ret
           ELSE \E channel \in ChannelResults(overwriteID) :
                LET overwrites == KeepOthers(channel.PermissionOverwrites,
                                             overwriteID, overwriteType)
                    edit == <<"ChannelEditComplex", channelID, overwrites>>
                IN  /\ ret' = PermissionLocals(channel.PermissionOverwrites,
                                               overwriteID, overwriteType)
                    /\ UNCHANGED origin
                    /\ IF channel.err # "nil"
                       THEN /\ diags' = Append(diags, "Error Fetching Channel")
                            /\ calls' = Append(calls, fetch)
                            /\ UNCHANGED state
                       ELSE \E err \in ErrResults :
                            /\ calls' = calls \o <<fetch, edit>>
                            /\ IF err # "nil"
                               THEN /\ diags' = Append(diags, "Error Deleting Channel Permission")
                                    /\ UNCHANGED state
                               ELSE /\ state' = NoAttributes
                                    /\ UNCHANGED diags
    /\ pc' = "done"
    /\ UNCHANGED <<op, arg, cfg, res, discord, client>>

\* the framework calls a method of the resource; an import is given the id
\* last stored in state, alone or followed by ':' and the type
PermissionRequest ==
    /\ pc = "done"
    /\ res = "discord_channel_permission"
    /\ pc' = "call"
    /\ diags' = << >>
    /\ calls' = << >>
    /\ \/ /\ op' = "Configure"
          /\ arg' \in ProviderData
          /\ cfg' = NoPlan
       \/ /\ op' = "Create"
          /\ state = NoAttributes
          /\ arg' = << >>
          /\ cfg' \in PermissionPlans
       \/ /\ op' \in {"Read", "Delete"}
          /\ state # NoAttributes
          /\ arg' = << >>
          /\ cfg' = NoPlan
       \/ /\ op' = "Update"
          /\ state # NoAttributes
          /\ arg' = << >>
          /\ cfg' \in PermissionPlans
       \/ /\ op' = "ImportState"
          /\ origin # RawOrigin
          /\ arg' \in {origin.model.id, origin.model.id \o <<Colon>> \o origin.model.type}
          /\ cfg' = NoPlan
    /\ UNCHANGED <<origin, ret, state, res, discord, client>>

PermissionInit ==
    /\ discord = << >>
    /\ res = "discord_channel_permission"
    /\ op = "New"
    /\ pc = "done"
    /\ client = ClientNil
    /\ state = NoAttributes
    /\ diags = << >>
    /\ calls = << >>
    /\ arg = << >>
    /\ cfg = NoPlan
    /\ ret = NoLocals
    /\ origin = RawOrigin

PermissionNext ==
    \/ PermissionRequest
    \/ Configure
    \/ PermissionCreate
    \/ PermissionRead
    \/ PermissionUpdate
    \/ PermissionDelete
    \/ ChannelPermissionImportState

PermissionSpec == PermissionInit /\ [][PermissionNext]_vars

----------------------------------------------------------------------------
(* Vocabulary of the channel permission properties *)

\* the overwrites of a list whose (id, type) is not the given one, in order
Others(fetched, id, type) == SelectSeq(fetched, LAMBDA ow : ow.ID # id \/ ow.Type # type)

\* the (id, type) a handler manages: the plan's for Create and Update, the
\* state's for Delete
ManagedID == IF op = "Delete" THEN origin.model.overwrite_id ELSE ValueString(cfg.overwrite_id)

ManagedType ==
    IF op = "Delete" THEN OverwriteTypeOf(origin.model.type)
    ELSE OverwriteTypeOf(ValueString(cfg.type))

(* C24: channel_permission Create, Update and Delete preserve all other    *)
(* overwrites: the list sent to ChannelEditComplex is every overwrite just *)
(* fetched whose (id, type) differs from the managed one, unchanged and in *)
(* the fetched order, followed for Create and Update by exactly one entry  *)
(* for the managed (id, type) with the planned allow/deny (0 for a null    *)
(* deny), and for Delete by nothing; the edit follows the fetch directly   *)
(* and there is at most one edit.                                          *)
C24_PreservesOthers ==
    res = "discord_channel_permission" /\ pc = "done"
        /\ op \in {"Create", "Update", "Delete"} =>
        /\ Cardinality(CallsTo("ChannelEditComplex")) <= 1
        /\ \A i \in CallsTo("ChannelEditComplex") :
               LET kept == Others(ret.fetched, ManagedID, ManagedType)
               IN  /\ i = 2
                   /\ calls[1][1] = "Channel"
                   /\ calls[i][3] =
                          IF op = "Delete" THEN kept
                          ELSE Append(kept, Overwrite(ManagedID, ManagedType,
                                                      ValueInt64(cfg.allow), ValueInt64(cfg.deny)))

C24_Witness ==
    /\ res = "discord_channel_permission" /\ pc = "done" /\ op = "Create"
    /\ ret # NoLocals
    /\ Len(ret.fetched) = 3
    /\ cfg.type = StringValue(TypeRole)
    /\ cfg.deny = Int64Null
    /\ Len(calls) = 2
    /\ calls[2][3] = <<Overwrite(<<"z">>, PermissionOverwriteTypeRole, 8, 0),
                       Overwrite(<<"a">>, PermissionOverwriteTypeMember, 2048, 1024),
                       Overwrite(<<"a">>, PermissionOverwriteTypeRole, 1024, 0)>>

(* C30 as stated: the id that Create, Read and Update store in state       *)
(* (channel_id:overwrite_id) round-trips through ImportState: passed as    *)
(* the import ID it is accepted and identifies the same channel_id and     *)
(* overwrite_id.                                                           *)
C30_AsStated ==
    ImportDone("discord_channel_permission") /\ origin # RawOrigin
        /\ arg = origin.model.id /\ client = ClientSession =>
        /\ ~InvalidImportID(diags)
        /\ ret # NoLocals
        /\ ret.channelID = origin.model.channel_id
        /\ ret.overwriteID = origin.model.overwrite_id

----------------------------------------------------------------------------
(* Part 4: channelPermissionResource.Create run twice at the same time, as *)
(* Terraform does for two resources that do not depend on each other. Here *)
(* pc, cfg, ret, diags and state hold one value per call, and discord is   *)
(* the overwrite list of the channel both calls work on. A call takes two  *)
(* steps, one per API call of Create: Channel and ChannelEditComplex.      *)

Procs == {1, 2}

\* plans that pass every test Create makes before it fetches the channel
CreatablePermissionPlans ==
    {data \in PermissionPlans :
        /\ ValueString(data.channel_id) # << >>
        /\ ValidType(ValueString(data.type))
        /\ ValueString(data.overwrite_id) # << >>
        /\ ValueString(data.overwrite_id) \notin PlaceholderIDs} \cup
    [channel_id : {StringValue(<<"c">>)},
     type : {StringValue(TypeRole), StringValue(TypeMember)},
     overwrite_id : {StringValue(<<"b">>)},
     allow : {Int64Value(2048)},
     deny : {Int64Null}]

\* lines 95-198 of Create: the plan is read and the channel fetched
ConcurrentFetch(p) ==
    /\ pc[p] = "call"
    /\ ~ClientMissing(client)
    /\ LET data == cfg[p]
           channelID == ValueString(data.channel_id)
           overwriteID == ValueString(data.overwrite_id)
           overwriteType == OverwriteTypeOf(ValueString(data.type))
       IN  /\ calls' = Append(calls, <<"Channel", channelID, p>>)
           /\ \E err \in ErrResults :
                  IF err # "nil"
                  THEN /\ diags' = [diags EXCEPT ![p] = Append(@, "Error Fetching Channel")]
                       /\ pc' = [pc EXCEPT ![p] = "done"]
                       /\ UNCHANGED ret
                  ELSE /\ ret' = [ret EXCEPT ![p] = PermissionLocals(discord, overwriteID,
                                                                     overwriteType)]
                       /\ pc' = [pc EXCEPT ![p] = "edit"]
                       /\ UNCHANGED diags
    /\ UNCHANGED <<op, arg, origin, cfg, state, res, discord, client>>

\* lines 201-269 of Create: the list is built from the fetched channel and
\* sent; Discord replaces the channel's overwrites by the list it is sent and
\* returns the channel, in which Create finds its overwrite
ConcurrentEdit(p) ==
    /\ pc[p] = "edit"
    /\ LET data == cfg[p]
           channelID == ValueString(data.channel_id)
           typeStr == ValueString(data.type)
           overwriteID == ValueString(data.overwrite_id)
           overwriteType == OverwriteTypeOf(typeStr)
           allow == IF Known(data.allow) THEN ValueInt64(data.allow) ELSE 0
           deny == IF Known(data.deny) THEN ValueInt64(data.deny) ELSE 0
           overwrite == Overwrite(overwriteID, overwriteType, allow, deny)
           overwrites == Append(KeepOthers(ret[p].fetched, overwriteID, overwriteType),
                                overwrite)
       IN  /\ calls' = Append(calls, <<"ChannelEditComplex", channelID, overwrites, p>>)
           /\ \E err \in ErrResults :
                  IF err # "nil"
                  THEN /\ diags' = [diags EXCEPT
                                       ![p] = Append(@, "Error Setting Channel Permission")]
                       /\ UNCHANGED <<state, discord>>
                  ELSE LET updatedChannel == [err |-> "nil", PermissionOverwrites |-> overwrites]
                           finalOverwrite ==
                               updatedChannel.PermissionOverwrites[
                                   FindOverwrite(updatedChannel.PermissionOverwrites,
                                                 overwriteID, overwriteType)]
                       IN  /\ discord' = overwrites
                           /\ state' = [state EXCEPT ![p] =
                                  PermissionModel(channelID, typeStr, overwriteID,
                                                  finalOverwrite.Allow, finalOverwrite.Deny)]
                           /\ UNCHANGED diags
    /\ pc' = [pc EXCEPT ![p] = "done"]
    /\ UNCHANGED <<op, arg, origin, cfg, ret, res, client>>

\* two Create calls for different overwrite_ids on the same channel, which
\* holds some overwrites already
ConcurrentInit ==
    /\ res = "discord_channel_permission"
    /\ op = "Create"
    /\ client = ClientSession
    /\ arg = << >>
    /\ origin = RawOrigin
    /\ calls = << >>
    /\ pc = [p \in Procs |-> "call"]
    /\ diags = [p \in Procs |-> << >>]
    /\ state = [p \in Procs |-> NoAttributes]
    /\ ret = [p \in Procs |-> NoLocals]
    /\ cfg \in {plans \in [Procs -> CreatablePermissionPlans] :
                   /\ plans[1].channel_id = plans[2].channel_id
                   /\ plans[1].overwrite_id # plans[2].overwrite_id}
    /\ discord \in {<< >>,
                    <<Overwrite(<<"z">>, PermissionOverwriteTypeRole, 8, 0)>>,
                    <<Overwrite(<<"a">>, PermissionOverwriteTypeRole, 8, 0)>>}

ConcurrentNext == \E p \in Procs : ConcurrentFetch(p) \/ ConcurrentEdit(p)

ConcurrentSpec == ConcurrentInit /\ [][ConcurrentNext]_vars

----------------------------------------------------------------------------
(* Vocabulary of the concurrency property *)

\* the call reported success
Succeeded(p) == pc[p] = "done" /\ diags[p] = << >> /\ state[p] # NoAttributes

\* the channel holds the overwrite the call was to create
Holds(p) ==
    FindOverwrite(discord, ValueString(cfg[p].overwrite_id),
                  OverwriteTypeOf(ValueString(cfg[p].type))) # 0

(* C25 as stated: when two channel_permission Create operations for        *)
(* different overwrite_ids on the same channel run concurrently, after     *)
(* both have reported success the channel holds both overwrites, under     *)
(* every interleaving of their fetch and edit steps.                       *)
C25_AsStated ==
    (\A p \in Procs : Succeeded(p)) => \A p \in Procs : Holds(p)

----------------------------------------------------------------------------
(* Part 4: discord_role, unnamed/part_008 *)

Everyone == <<"@", "e", "v", "e", "r", "y", "o", "n", "e">>

\* a *int, *bool or *int64 field of discordgo.RoleParams
NilPtr(zero) == [isNil |-> TRUE, v |-> zero]

Ptr(value) == [isNil |-> FALSE, v |-> value]

\* discordgo.RoleParams as Create and Update fill it from the plan
RoleParams(data) ==
    [Name |-> ValueString(data.name),
     Color |-> IF Known(data.color) THEN Ptr(ValueInt64(data.color)) ELSE NilPtr(0),
     Hoist |-> IF Known(data.hoist) THEN Ptr(ValueBool(data.hoist)) ELSE NilPtr(FALSE),
     Mentionable |-> IF Known(data.mentionable) THEN Ptr(ValueBool(data.mentionable))
                     ELSE NilPtr(FALSE),
     Permissions |-> IF Known(data.permissions) THEN Ptr(ValueInt64(data.permissions))
                     ELSE NilPtr(0)]

\* a *discordgo.Role returned by the API: Discord chooses the id and applies
\* the parameters it was given
Role(id, params) ==
    [err |-> "nil", isNil |-> FALSE, ID |-> id, Name |-> params.Name,
     Color |-> params.Color.v, Hoist |-> params.Hoist.v,
     Mentionable |-> params.Mentionable.v, Permissions |-> params.Permissions.v,
     Position |-> 1, Managed |-> FALSE]

NoRoleParams ==
    [Name |-> << >>, Color |-> NilPtr(0), Hoist |-> NilPtr(FALSE),
     Mentionable |-> NilPtr(FALSE), Permissions |-> NilPtr(0)]

RoleErr == [Role(<< >>, NoRoleParams) EXCEPT !.err = "error"]

RoleNil == [Role(<< >>, NoRoleParams) EXCEPT !.isNil = TRUE]

\* r.client.GuildRoleCreate(guildID, roleParams)
RoleCreateResults(params) ==
    {RoleErr, RoleNil} \cup {Role(id, params) : id \in {<< >>, <<"R">>}}

\* r.client.GuildRoleEdit(guildID, roleID, roleParams)
RoleEditResults(roleID, params) == {RoleErr, Role(roleID, params)}

\* r.client.GuildRoles(guildID): an error, or the roles of the guild
GuildRolesResults(roleID) ==
    LET other == Role(<<"z">>, [NoRoleParams EXCEPT !.Name = <<"o">>])
        wanted == Role(roleID, [NoRoleParams EXCEPT !.Name = <<"w">>])
    IN  {[err |-> "error", roles |-> << >>]} \cup
        {[err |-> "nil", roles |-> l] : l \in {<< >>, <<other>>, <<other, wanted>>}}

\* the loop over roles: the first role with the id, 0 if there is none
FindRole(roles, roleID) ==
    IF \E i \in 1..Len(roles) : roles[i].ID = roleID
    THEN CHOOSE i \in 1..Len(roles) :
             roles[i].ID = roleID /\ \A j \in 1..(i-1) : roles[j].ID # roleID
    ELSE 0

\* roleResourceModel as the handlers fill it
RoleModel(guildID, role) ==
    [id |-> StringValue(role.ID),
     name |-> StringValue(role.Name),
     guild_id |-> StringValue(guildID),
     color |-> Int64Value(role.Color),
     hoist |-> BoolValue(role.Hoist),
     mentionable |-> BoolValue(role.Mentionable),
     permissions |-> Int64Value(role.Permissions),
     position |-> Int64Value(role.Position),
     managed |-> BoolValue(role.Managed)]

\* the plans: name and guild_id are required strings, the rest is optional
\* and computed; no validator
RolePlans ==
    [guild_id : {StringValue(<< >>), StringValue(<<"g">>)},
     name : {StringValue(<< >>), StringValue(<<"r">>), StringValue(Everyone),
             StringValue([i \in 1..100 |-> "n"]), StringValue([i \in 1..101 |-> "n"])},
     color : {Int64Null} \cup {Int64Value(n) : n \in {-1, 0, 16777215, 16777216}},
     hoist : {BoolNull, BoolValue(TRUE)},
     mentionable : {BoolNull, BoolValue(TRUE)},
     permissions : {Int64Null, Int64Value(8)}]

\* the state an earlier Create, Read or Update left
RolePriorStates ==
    {RoleModel(<<"g">>, Role(<<"R">>, [NoRoleParams EXCEPT !.Name = name])) :
        name \in {<<"r">>, <<"q">>}}

\* roleResource.Create
RoleCreate ==
    /\ pc = "call"
    /\ op = "Create"
    /\ res = "discord_role"
    /\ LET data == cfg
           guildID == ValueString(data.guild_id)
           name == ValueString(data.name)
           roleParams == RoleParams(data)
       IN  IF ClientMissing(client)
           THEN Reject("Discord Client Not Configured")
           ELSE IF guildID = << >>
           THEN Reject("Missing Guild ID")
           ELSE IF name = << >>
           THEN Reject("Missing Role Name")
           ELSE IF Len(name) < 1 \/ Len(name) > 100
           THEN Reject("Invalid Role Name")
           ELSE IF name = Everyone
           THEN Reject("Invalid Role Name")
           ELSE IF Known(data.color) /\ (roleParams.Color.v < 0 \/ roleParams.Color.v > 16777215)
           THEN Reject("Invalid Color")
           ELSE \E role \in RoleCreateResults(roleParams) :
                /\ calls' = Append(calls, <<"GuildRoleCreate", guildID, roleParams>>)
                /\ UNCHANGED origin
                /\ IF role.err # "nil"
                   THEN diags' = Append(diags, "Error Creating Role") /\ UNCHANGED state
                   ELSE IF role.isNil
                   THEN diags' = Append(diags, "Role Creation Failed") /\ UNCHANGED state
                   ELSE IF role.ID = << >>
                   THEN diags' = Append(diags, "Invalid Role Response") /\ UNCHANGED state
                   ELSE state' = RoleModel(guildID, role) /\ UNCHANGED diags
    /\ pc' = "done"
    /\ UNCHANGED <<op, arg, cfg, ret, res, discord, client>>

\* roleResource.Update; arg is req.State, cfg is req.Plan
RoleUpdate ==
    /\ pc = "call"
    /\ op = "Update"
    /\ res = "discord_role"
    /\ LET plan == cfg
           roleID == ValueString(arg.id)
           guildID == ValueString(plan.guild_id)
           name == ValueString(plan.name)
           roleParams == RoleParams(plan)
       IN  IF ClientMissing(client)
           THEN Reject("Discord Client Not Configured")
           ELSE IF roleID = << >>
           THEN Reject("Missing Role ID")
           ELSE IF guildID = << >>
           THEN Reject("Missing Guild ID")
           ELSE IF name = << >>
           THEN Reject("Missing Role Name")
           ELSE IF Len(name) < 1 \/ Len(name) > 100
           THEN Reject("Invalid Role Name")
           ELSE IF Known(plan.color) /\ (roleParams.Color.v < 0 \/ roleParams.Color.v > 16777215)
           THEN Reject("Invalid Color")
           ELSE \E role \in RoleEditResults(roleID, roleParams) :
                /\ calls' = Append(calls, <<"GuildRoleEdit", guildID, roleParams, roleID>>)
                /\ UNCHANGED origin
                /\ IF role.err # "nil"
                   THEN diags' = Append(diags, "Error Updating Role") /\ UNCHANGED state
                   ELSE state' = RoleModel(guildID, role) /\ UNCHANGED diags
    /\ pc' = "done"
    /\ UNCHANGED <<op, arg, cfg, ret, res, discord, client>>

\* len(importID) > 18 && importID[18] == ':'
HasColonAt18(importID) == Len(importID) > 18 /\ importID[19] = Colon

\* roleResource.ImportState. ret holds the locals guildID and roleID once
\* the handler has assigned them.
RoleImportState ==
    /\ pc = "call"
    /\ op = "ImportState"
    /\ res = "discord_role"
    /\ LET importID == arg
           guildID == SubSeq(importID, 1, 18)
           roleID == SubSeq(importID, 20, Len(importID))
           locals == [guildID |-> guildID, roleID |-> roleID]
       IN  IF importID = << >>
           THEN Reject("Missing Import ID") /\ UNCHANGED ret
           ELSE IF ClientMissing(client)
           THEN Reject("Discord Client Not Configured") /\ UNCHANGED ret
           ELSE IF ~HasColonAt18(importID)
           THEN Reject("Invalid Import ID Format") /\ UNCHANGED ret
           ELSE IF roleID = guildID
           THEN Reject("Cannot Import @everyone Role") /\ ret' = locals
           ELSE \E fetched \in GuildRolesResults(roleID) :
                LET at == FindRole(fetched.roles, roleID)
                IN  /\ ret' = locals
                    /\ calls' = Append(calls, <<"GuildRoles", guildID>>)
                    /\ UNCHANGED origin
                    /\ IF fetched.err # "nil"
                       THEN diags' = Append(diags, "Error Fetching Role") /\ UNCHANGED state
                       ELSE IF at = 0
                       THEN diags' = Append(diags, "Role Not Found") /\ UNCHANGED state
                       ELSE /\ state' = RoleModel(guildID, fetched.roles[at])
                            /\ UNCHANGED diags
    /\ pc' = "done"
    /\ UNCHANGED <<op, arg, cfg, res, discord, client>>

\* import IDs: a guild part of 0, 1, 17, 18 or 19 characters, with or without
\* ':' and a role part that is empty, short, equal to the guild part, 18
\* characters long, or holds a ':' itself
Repeat(d, n) == [i \in 1..n |-> d]

RoleImportIds ==
    {<< >>} \cup
    {Repeat("1", n) : n \in {1, 18, 19}} \cup
    UNION {{Repeat("1", n) \o <<Colon>> \o role :
                role \in {<< >>, <<"2">>, Repeat("1", n), Repeat("2", 18), <<"2", Colon, "3">>}} :
            n \in {0, 1, 17, 18, 19}}

\* Create is about to be called on no state, Update on the state of an earlier
\* run, or ImportState with an import ID; the client is set or not
RoleInit ==
    /\ discord = << >>
    /\ res = "discord_role"
    /\ op \in {"Create", "Update", "ImportState"}
    /\ pc = "call"
    /\ client \in {ClientNil, ClientSession}
    /\ cfg \in IF op = "ImportState" THEN {NoPlan} ELSE RolePlans
    /\ arg \in CASE op = "Create" -> {NoAttributes}
                 [] op = "Update" -> RolePriorStates
                 [] op = "ImportState" -> RoleImportIds
    /\ state = IF op = "Update" THEN arg ELSE NoAttributes
    /\ diags = << >>
    /\ calls = << >>
    /\ ret = NoLocals
    /\ origin = RawOrigin

RoleNext == RoleCreate \/ RoleUpdate \/ RoleImportState

RoleSpec == RoleInit /\ [][RoleNext]_vars

----------------------------------------------------------------------------
(* Vocabulary of the role properties *)

\* the import ID is two non-empty ids without ':' joined by one ':'
DocumentedRoleImportId(importID) ==
    /\ ColonCount(importID) = 1
    /\ BeforeFirstColon(importID) # << >>
    /\ AfterFirstColon(importID) # << >>

(* C28 as stated: the discord_role resource never sends the role name      *)
(* '@everyone' to Discord: in both Create and Update a plan whose name is  *)
(* '@everyone' is rejected with 'Invalid Role Name' before GuildRoleCreate *)
(* or GuildRoleEdit is called.                                             *)
C28_AsStated ==
    res = "discord_role" /\ pc = "done" /\ op \in {"Create", "Update"} =>
        /\ \A i \in CallsTo("GuildRoleCreate") \cup CallsTo("GuildRoleEdit") :
               calls[i][3].Name # Everyone
        /\ client = ClientSession /\ ValueString(cfg.guild_id) # << >>
              /\ ValueString(cfg.name) = Everyone =>
               diags = <<"Invalid Role Name">> /\ calls = << >>

(* C29 as stated: with a configured client, roleResource.ImportState       *)
(* accepts every import ID made of two non-empty ids without ':' of any    *)
(* length joined by one ':', decoding guild_id as the part before the ':'  *)
(* and role_id as the part after it, and rejects such an ID only when      *)
(* role_id equals guild_id or the role cannot be found in the guild.       *)
C29_AsStated ==
    ImportDone("discord_role") /\ client = ClientSession
        /\ DocumentedRoleImportId(arg) =>
        /\ ret # NoLocals
        /\ ret.guildID = BeforeFirstColon(arg)
        /\ ret.roleID = AfterFirstColon(arg)
        /\ diags # << >> =>
               \/ diags = <<"Cannot Import @everyone Role">> /\ ret.roleID = ret.guildID
               \/ diags \in {<<"Role Not Found">>, <<"Error Fetching Role">>}

====
